---- MODULE Spec2Model ----
(***************************************************************************)
(* FedChecker: the check / result / score aggregation model and the        *)
(* remediation dispatcher.                                                 *)
(*                                                                         *)
(* These specifications share the variables below:                         *)
(*   SpecCategory  the derived properties of a CheckCategory               *)
(*   SpecChecker   run_all_checks of the four checkers                     *)
(*   SpecFixer     apply_fix of the four fixers and their handlers         *)
(*   SpecProbe     one call of a probe or of a _run_command helper         *)
(*   SpecApp       main.py: the menu loop, the cache, Auto-Fix, the report *)
(*   SpecMenu      ui/menu.py: run_menu on a Menu, key press by key press  *)
(* Each leaves the variables of the others at their idle values.           *)
(*                                                                         *)
(* Strings are the program's strings.  An f-string keeps its holes as      *)
(* written in the source ("{driver} driver loaded, WiFi blocked").  A      *)
(* score is a float in the program; here it is the exact fraction          *)
(* num / den, compared by cross-multiplication.                            *)
(***************************************************************************)
EXTENDS Integers, Sequences, FiniteSets, TLC

VARIABLES
    category,      \* SpecCategory: the CheckCategory under inspection
    scoreOut,      \* SpecCategory: <<>> or <<the value read from category.score>>
    statusOut,     \* SpecCategory: <<>> or <<the value read from category.overall_status>>
    checker,       \* SpecChecker: which checker runs ("Health Check", ...)
    runPc,         \* SpecChecker: "idle", "loop", "returned" or "interrupted"
    idx,           \* SpecChecker: index into the probe table of the probe to run next
    results,       \* SpecChecker: self.results
    returned,      \* SpecChecker: <<>> or <<the CheckCategory run_all_checks returned>>
    probeLog,      \* SpecChecker: history: what each probe did, in call order
    deviations,    \* SpecChecker: number of probes that left the run's baseline outcome
    baseline,      \* SpecChecker: the outcome probes take unless they deviate
    fixer,         \* SpecFixer: the fixer class in use, named by its category
    check_result,  \* SpecFixer: the argument of apply_fix
    fixPc,         \* SpecFixer: position inside apply_fix
    events,        \* SpecFixer: history: prompts (with the answer) and commands, in order
    fix_result,    \* SpecFixer: <<>> (running or None) or <<the FixResult returned>>
    callee,        \* SpecProbe: the function called (a probe or a _run_command helper)
    probeEnv,      \* SpecProbe: what the system does to that call
    probePc,       \* SpecProbe: "idle", "returned" or "raised"
    probeOut,      \* SpecProbe: <<>> or <<the value returned>>
    appPc,         \* SpecApp: where the application is
    check_results, \* SpecApp: self.check_results, the (key, value) pairs in dict order
    lists,         \* SpecApp: the result lists allocated so far, by index
    run,           \* SpecApp: the run_all_checks call in progress, or NoRun
    pending,       \* SpecApp: the checkers _generate_report has still to run
    fixq,          \* SpecApp: _run_auto_fix: the fixable items left, fixed, failed, and
                   \*          history: the items passed to apply_fix, how the last call ended
    exitCode,      \* SpecApp: <<>> or <<the exit code of the process>>
    cause,         \* SpecApp: history: what reached the top level, and where from
    completed,     \* SpecApp: history: the completed run_all_checks runs, in order
    report,        \* SpecApp: the generator.generate call in progress, or NoReport
    menu,          \* SpecMenu: the Menu: its items and its selected_index
    menuPc,        \* SpecMenu: position inside run_menu
    pressed,       \* SpecMenu: history: the key get_keypress returned last
    moveFrom,      \* SpecMenu: history: selected_index when the last move began
    menuOut        \* SpecMenu: <<>> or <<the key run_menu returned>>

categoryVars == <<category, scoreOut, statusOut>>
checkerVars == <<checker, runPc, idx, results, returned, probeLog, deviations, baseline>>
fixerVars == <<fixer, check_result, fixPc, events, fix_result>>
probeVars == <<callee, probeEnv, probePc, probeOut>>
appVars == <<appPc, check_results, lists, run, pending, fixq, exitCode, cause, completed, report>>
menuVars == <<menu, menuPc, pressed, moveFrom, menuOut>>
vars == <<categoryVars, checkerVars, fixerVars, probeVars, appVars, menuVars>>

----------------------------------------------------------------------------
(* Bounds of the exploration.                                              *)

\* longest list of results a CheckCategory is constructed with in SpecCategory
MaxResults == 5
\* most probes of one run_all_checks run that leave the run's baseline outcome
MaxDeviations == 2
\* most partitions psutil.disk_partitions() lists in SpecProbe
MaxPartitions == 2
\* most run_all_checks runs in one session of SpecApp
MaxRuns == 4
\* most items of a Menu in SpecMenu
MaxItems == 3

----------------------------------------------------------------------------
(* ui/colors.py: CheckStatus, CheckResult, CheckCategory.                  *)

PASS == "pass"
FAIL == "fail"
WARN == "warn"
SKIP == "skip"
ERROR == "error"
CheckStatus == {PASS, FAIL, WARN, SKIP, ERROR}

\* details is free text for display and is left out.
CheckResult(name, status, message, fix_available, fix_command) ==
    [name |-> name, status |-> status, message |-> message,
     fix_available |-> fix_available, fix_command |-> fix_command]

\* icon is presentation only and is left out.
CheckCategory(name, rs) == [name |-> name, results |-> rs]

\* sum(1 for r in self.results if r.status == s)
RECURSIVE CountStatus(_, _)
CountStatus(rs, s) ==
    IF rs = <<>> THEN 0
    ELSE (IF Head(rs).status = s THEN 1 ELSE 0) + CountStatus(Tail(rs), s)

passed(c) == CountStatus(c.results, PASS)
failed(c) == CountStatus(c.results, FAIL)
warnings(c) == CountStatus(c.results, WARN)
total(c) == Len(c.results)

\* a float v is the fraction num / den
Float(num, den) == [num |-> num, den |-> den]

\* score with Skip and Error results left out of the denominator
score_SkipErrorNotCounted(c) ==
    LET counted == passed(c) + failed(c) + warnings(c)
    IN IF counted = 0 THEN Float(100, 1)
       ELSE Float((passed(c) * 2 + warnings(c) * 1) * 100, 2 * counted)

\* score with a Warn result weighted like a Pass result
score_WarnFullWeight(c) ==
    IF total(c) = 0 THEN Float(100, 1)
    ELSE Float((passed(c) * 2 + warnings(c) * 2) * 100, 2 * total(c))

\* passed_weight = passed * 1.0; warn_weight = warnings * 0.5;
\* ((passed_weight + warn_weight) / total) * 100, in halves: (2p + w) * 100 / (2 * total)
score(c) ==
    IF total(c) = 0 THEN Float(100, 1)
    ELSE Float((passed(c) * 2 + warnings(c) * 1) * 100, 2 * total(c))

\* overall_status testing the warnings before the failures
overall_status_WarnFirst(c) ==
    IF warnings(c) > 0 THEN WARN
    ELSE IF failed(c) > 0 THEN FAIL
    ELSE PASS

\* overall_status with a Skip or an Error result counting like a Warn result
overall_status_SkipErrorDrive(c) ==
    IF failed(c) > 0 THEN FAIL
    ELSE IF warnings(c) > 0 \/ \E i \in DOMAIN c.results : c.results[i].status \in {SKIP, ERROR}
    THEN WARN
    ELSE PASS

overall_status(c) ==
    IF failed(c) > 0 THEN FAIL
    ELSE IF warnings(c) > 0 THEN WARN
    ELSE PASS

----------------------------------------------------------------------------
(* SpecCategory: a CheckCategory is constructed with any list of results,  *)
(* then its score and overall_status properties are read.                  *)

\* every list of at most n results, one per status in each position
RECURSIVE ResultLists(_)
ResultLists(n) ==
    IF n = 0 THEN {<<>>}
    ELSE LET shorter == ResultLists(n - 1)
         IN shorter \cup
            {Append(rs, CheckResult("check", s, "message", FALSE, "")) :
                rs \in {x \in shorter : Len(x) = n - 1}, s \in CheckStatus}

\* nine Pass results and one result of status s in position k
NinePassAnd(s, k) ==
    [i \in 1..10 |-> CheckResult("check", IF i = k THEN s ELSE PASS, "message", FALSE, "")]

CategoryInputs ==
    ResultLists(MaxResults) \cup {NinePassAnd(s, k) : s \in CheckStatus, k \in 1..10}

IdleCategory ==
    /\ category = CheckCategory("", <<>>)
    /\ scoreOut = <<>>
    /\ statusOut = <<>>

IdleChecker ==
    /\ checker = ""
    /\ runPc = "idle"
    /\ idx = 0
    /\ results = <<>>
    /\ returned = <<>>
    /\ probeLog = <<>>
    /\ deviations = 0
    /\ baseline = ""

IdleFixer ==
    /\ fixer = ""
    /\ check_result = CheckResult("", PASS, "", FALSE, "")
    /\ fixPc = "idle"
    /\ events = <<>>
    /\ fix_result = <<>>

IdleProbe ==
    /\ callee = ""
    /\ probeEnv = <<>>
    /\ probePc = "idle"
    /\ probeOut = <<>>

IdleApp ==
    /\ appPc = "idle"
    /\ check_results = <<>>
    /\ lists = <<>>
    /\ run = [checker |-> "", list |-> 0, idx |-> 0, inflight |-> {}, scenario |-> ""]
    /\ pending = <<>>
    /\ fixq = [queue |-> <<>>, fixed |-> 0, failed |-> 0, passed |-> <<>>, last |-> ""]
    /\ exitCode = <<>>
    /\ cause = [reached |-> "", during |-> ""]
    /\ completed = <<>>
    /\ report = [categories |-> <<>>, file |-> ""]

IdleMenu ==
    /\ menu = [items |-> <<>>, selected_index |-> 0]
    /\ menuPc = "idle"
    /\ pressed = ""
    /\ moveFrom = 0
    /\ menuOut = <<>>

InitCategory ==
    /\ \E rs \in CategoryInputs : category = CheckCategory("Health Check", rs)
    /\ scoreOut = <<>>
    /\ statusOut = <<>>
    /\ IdleChecker
    /\ IdleFixer
    /\ IdleProbe
    /\ IdleApp
    /\ IdleMenu

\* reading the property category.score
GetScore ==
    /\ scoreOut = <<>>
    /\ scoreOut' = <<score(category)>>
    /\ UNCHANGED <<category, statusOut, checkerVars, fixerVars, probeVars, appVars, menuVars>>

\* reading the property category.overall_status
GetOverallStatus ==
    /\ statusOut = <<>>
    /\ statusOut' = <<overall_status(category)>>
    /\ UNCHANGED <<category, scoreOut, checkerVars, fixerVars, probeVars, appVars, menuVars>>

NextCategory == GetScore \/ GetOverallStatus

SpecCategory == InitCategory /\ [][NextCategory]_vars

\* the statuses of the category's results, in order
Statuses == [i \in DOMAIN category.results |-> category.results[i].status]
\* the number of the category's results with status s
NumWith(s) == Cardinality({i \in DOMAIN category.results : category.results[i].status = s})
NumResults == Cardinality(DOMAIN category.results)
ExampleStatuses == <<PASS, PASS, WARN, FAIL, SKIP>>

\* C1: the score of a category without results is 100; otherwise it is
\* ((#Pass + 0.5 * #Warn) / #results) * 100, Skip, Error and Fail results counting
\* in the denominator only; [Pass, Pass, Warn, Fail, Skip] scores 50.
C1_ScoreFormula ==
    scoreOut # <<>> =>
        LET sc == scoreOut[1]
        IN /\ sc.den > 0
           /\ NumResults = 0 => sc.num = 100 * sc.den
           /\ NumResults > 0 =>
                 sc.num * (2 * NumResults) = (2 * NumWith(PASS) + NumWith(WARN)) * 100 * sc.den
           /\ Statuses = ExampleStatuses => sc.num = 50 * sc.den

C1_Witness ==
    /\ scoreOut # <<>>
    /\ Statuses = ExampleStatuses
    /\ scoreOut[1].num = 50 * scoreOut[1].den

\* C2: 0 <= score <= 100, and score = 100 exactly when every result is Pass;
\* one Skip among nine Pass scores 90.
C2_ScoreRange ==
    scoreOut # <<>> =>
        LET sc == scoreOut[1]
        IN /\ sc.den > 0
           /\ 0 <= sc.num
           /\ sc.num <= 100 * sc.den
           /\ (sc.num = 100 * sc.den) <=> (NumWith(PASS) = NumResults)
           /\ (NumResults = 10 /\ NumWith(PASS) = 9 /\ NumWith(SKIP) = 1) => sc.num = 90 * sc.den

C2_Witness ==
    /\ scoreOut # <<>>
    /\ NumResults = 10
    /\ NumWith(PASS) = 9
    /\ NumWith(SKIP) = 1
    /\ scoreOut[1].num = 90 * scoreOut[1].den

\* C3: overall_status is Fail exactly when some result is Fail; failing that it is
\* Warn exactly when some result is Warn; failing that it is Pass.
C3_OverallStatus ==
    statusOut # <<>> =>
        LET st == statusOut[1]
        IN /\ (st = FAIL) <=> (NumWith(FAIL) > 0)
           /\ (st = WARN) <=> (NumWith(FAIL) = 0 /\ NumWith(WARN) > 0)
           /\ (st = PASS) <=> (NumWith(FAIL) = 0 /\ NumWith(WARN) = 0)

C3_Witness ==
    /\ statusOut = <<FAIL>>
    /\ NumWith(FAIL) > 0
    /\ NumWith(WARN) > 0

\* C22: overall_status is Pass exactly when the category has no Fail and no Warn
\* result, whatever its Skip and Error results; a category that is not empty and
\* holds only Skip and Error results has overall_status Pass and score 0.
C22_PassDespiteSkipError ==
    statusOut # <<>> =>
        /\ (statusOut[1] = PASS) <=> (NumWith(FAIL) = 0 /\ NumWith(WARN) = 0)
        /\ (NumResults > 0 /\ NumWith(SKIP) + NumWith(ERROR) = NumResults) =>
              /\ statusOut[1] = PASS
              /\ scoreOut # <<>> => scoreOut[1].num = 0 /\ scoreOut[1].den > 0

C22_Witness ==
    /\ statusOut = <<PASS>>
    /\ scoreOut # <<>>
    /\ scoreOut[1].num = 0
    /\ NumWith(SKIP) > 0
    /\ NumWith(ERROR) > 0
    /\ NumWith(SKIP) + NumWith(ERROR) = NumResults

----------------------------------------------------------------------------
(* checks/*.py: the probes.  A probe is the set of CheckResults its code   *)
(* constructs; which one it returns depends on the system it inspects.     *)

\* checks/health.py: the results each probe of HealthChecker constructs
check_disk_space ==
    {CheckResult("Disk Space", FAIL, "Critical: {len(critical)} partition(s) nearly full", TRUE, "dnf autoremove && dnf clean all"),
     CheckResult("Disk Space", WARN, "Warning: {len(warnings)} partition(s) above 85%", TRUE, "dnf autoremove && dnf clean all"),
     CheckResult("Disk Space", PASS, "Root partition: {root_usage}% used", FALSE, "")}

\* check_memory offering a fix for the critical case without naming a command
check_memory_FixWithoutCommand ==
    {CheckResult("Memory Usage", FAIL, "Critical: {percent_used}% RAM used", TRUE, ""),
     CheckResult("Memory Usage", WARN, "Warning: {percent_used}% RAM used", FALSE, ""),
     CheckResult("Memory Usage", PASS, "{percent_used}% used ({available_gb} GB free)", FALSE, "")}

check_memory ==
    {CheckResult("Memory Usage", FAIL, "Critical: {percent_used}% RAM used", FALSE, ""),
     CheckResult("Memory Usage", WARN, "Warning: {percent_used}% RAM used", FALSE, ""),
     CheckResult("Memory Usage", PASS, "{percent_used}% used ({available_gb} GB free)", FALSE, "")}

check_cpu_temperature ==
    {CheckResult("CPU Temperature", SKIP, "Temperature sensors not available", FALSE, ""),
     CheckResult("CPU Temperature", FAIL, "Critical: {max_temp}_C", FALSE, ""),
     CheckResult("CPU Temperature", WARN, "Warning: {max_temp}_C", FALSE, ""),
     CheckResult("CPU Temperature", PASS, "{max_temp}_C", FALSE, ""),
     CheckResult("CPU Temperature", SKIP, "Unable to read temperature", FALSE, "")}

\* check_swap naming its results "Swap", not as its table entry does
check_swap_NamedSwap ==
    {CheckResult("Swap", WARN, "No swap configured", TRUE, "fallocate -l 4G /swapfile && chmod 600 /swapfile && mkswap /swapfile && swapon /swapfile"),
     CheckResult("Swap", WARN, "Swap {percent_used}% used", FALSE, ""),
     CheckResult("Swap", PASS, "{swap_gb} GB configured, {percent_used}% used", FALSE, "")}

check_swap ==
    {CheckResult("Swap Space", WARN, "No swap configured", TRUE, "fallocate -l 4G /swapfile && chmod 600 /swapfile && mkswap /swapfile && swapon /swapfile"),
     CheckResult("Swap Space", WARN, "Swap {percent_used}% used", FALSE, ""),
     CheckResult("Swap Space", PASS, "{swap_gb} GB configured, {percent_used}% used", FALSE, "")}

check_failed_units ==
    {CheckResult("Failed Systemd Units", FAIL, "{len(failed_units)} failed unit(s)", TRUE, "systemctl reset-failed"),
     CheckResult("Failed Systemd Units", PASS, "No failed units", FALSE, ""),
     CheckResult("Failed Systemd Units", SKIP, "Check timed out", FALSE, "")}

check_system_load ==
    {CheckResult("System Load", FAIL, "High load: {load1}", FALSE, ""),
     CheckResult("System Load", WARN, "Elevated load: {load1}", FALSE, ""),
     CheckResult("System Load", PASS, "Load: {load1} ({cpu_count} CPUs)", FALSE, "")}

check_zombie_processes ==
    {CheckResult("Zombie Processes", WARN, "{len(zombies)} zombie process(es)", FALSE, ""),
     CheckResult("Zombie Processes", PASS, "No zombie processes", FALSE, "")}

check_dnf_status ==
    {CheckResult("Package Manager", FAIL, "DNF reports issues", TRUE, "dnf check && dnf distro-sync"),
     CheckResult("Package Manager", PASS, "DNF is healthy", FALSE, ""),
     CheckResult("Package Manager", ERROR, "DNF not found", FALSE, ""),
     CheckResult("Package Manager", SKIP, "Check timed out", FALSE, "")}

check_journal_errors ==
    {CheckResult("Journal Errors", WARN, "{error_count} errors since boot", FALSE, ""),
     CheckResult("Journal Errors", PASS, "{error_count} error(s) since boot", FALSE, ""),
     CheckResult("Journal Errors", PASS, "No errors since boot", FALSE, ""),
     CheckResult("Journal Errors", SKIP, "Unable to read journal", FALSE, "")}

check_orphaned_packages ==
    {CheckResult("Orphaned Packages", WARN, "{len(packages)} orphaned package(s)", TRUE, "dnf autoremove"),
     CheckResult("Orphaned Packages", PASS, "{f'{len(packages)} orphaned package(s)' if packages else 'No orphaned packages'}", FALSE, ""),
     CheckResult("Orphaned Packages", SKIP, "Unable to check", FALSE, "")}

\* the probe table of HealthChecker.run_all_checks
HealthChecker_checks ==
    <<[name |-> "Disk Space", check_func |-> check_disk_space],
      [name |-> "Memory Usage", check_func |-> check_memory],
      [name |-> "CPU Temperature", check_func |-> check_cpu_temperature],
      [name |-> "Swap Space", check_func |-> check_swap],
      [name |-> "Failed Systemd Units", check_func |-> check_failed_units],
      [name |-> "System Load", check_func |-> check_system_load],
      [name |-> "Zombie Processes", check_func |-> check_zombie_processes],
      [name |-> "Package Manager", check_func |-> check_dnf_status],
      [name |-> "Journal Errors", check_func |-> check_journal_errors],
      [name |-> "Orphaned Packages", check_func |-> check_orphaned_packages]>>

\* checks/drivers.py: the results each probe of DriverChecker constructs
check_gpu_driver ==
    {CheckResult("GPU Driver", SKIP, "Unable to detect GPU", FALSE, ""),
     CheckResult("GPU Driver", WARN, "No GPU detected", FALSE, ""),
     CheckResult("GPU Driver", WARN, "NVIDIA using nouveau driver", TRUE, "dnf install akmod-nvidia xorg-x11-drv-nvidia-cuda"),
     CheckResult("GPU Driver", FAIL, "NVIDIA GPU without proper driver", TRUE, "dnf install akmod-nvidia"),
     CheckResult("GPU Driver", PASS, "{gpu_info['vendor']}: {gpu_info['driver']}", FALSE, "")}

check_wifi_driver ==
    {CheckResult("WiFi Driver", FAIL, "WiFi hardware found but no driver loaded", TRUE, "dnf install linux-firmware iwlwifi-firmware"),
     CheckResult("WiFi Driver", SKIP, "No WiFi hardware detected", FALSE, ""),
     CheckResult("WiFi Driver", WARN, "{driver} driver loaded, WiFi blocked", TRUE, "rfkill unblock wifi"),
     CheckResult("WiFi Driver", PASS, "{driver} ({interface})", FALSE, "")}

check_audio_driver ==
    {CheckResult("Audio Driver", FAIL, "No sound subsystem detected", TRUE, "dnf install alsa-plugins-pulseaudio pipewire-alsa"),
     CheckResult("Audio Driver", FAIL, "No sound cards found", TRUE, "dnf install alsa-firmware sof-firmware"),
     CheckResult("Audio Driver", PASS, "{card_count} card(s), {audio_server}", FALSE, "")}

check_bluetooth ==
    {CheckResult("Bluetooth", SKIP, "No Bluetooth hardware detected", FALSE, ""),
     CheckResult("Bluetooth", WARN, "Bluetooth service not running", TRUE, "systemctl enable --now bluetooth"),
     CheckResult("Bluetooth", WARN, "Bluetooth is blocked", TRUE, "rfkill unblock bluetooth"),
     CheckResult("Bluetooth", PASS, "Bluetooth active", FALSE, "")}

check_usb ==
    {CheckResult("USB Controllers", SKIP, "Unable to query USB devices", FALSE, ""),
     CheckResult("USB Controllers", PASS, "{f'{device_count} device(s)' + (', USB 3.0' if has_usb3 else '')}", FALSE, "")}

check_ethernet ==
    {CheckResult("Network (Ethernet)", SKIP, "No ethernet interface detected", FALSE, ""),
     CheckResult("Network (Ethernet)", PASS, "{driver} ({interface}): {status_msg}", FALSE, "")}

check_webcam ==
    {CheckResult("Webcam", SKIP, "No video devices found", FALSE, ""),
     CheckResult("Webcam", PASS, "{cameras} video device(s) found", FALSE, ""),
     CheckResult("Webcam", PASS, "{len(video_devices)} video device(s)", FALSE, "")}

check_firmware ==
    {CheckResult("Firmware Updates", WARN, "fwupd not installed", TRUE, "dnf install fwupd"),
     CheckResult("Firmware Updates", PASS, "Firmware up to date", FALSE, ""),
     CheckResult("Firmware Updates", WARN, "Firmware updates available", TRUE, "fwupdmgr update"),
     CheckResult("Firmware Updates", PASS, "Unable to check updates", FALSE, "")}

check_kernel_modules ==
    {CheckResult("Kernel Modules", SKIP, "Unable to read dmesg", FALSE, ""),
     CheckResult("Kernel Modules", WARN, "{issues} firmware/module issue(s)", TRUE, "dnf install linux-firmware"),
     CheckResult("Kernel Modules", PASS, "{issues} minor issue(s)", FALSE, ""),
     CheckResult("Kernel Modules", PASS, "No module issues detected", FALSE, "")}

check_hw_acceleration ==
    {CheckResult("Hardware Acceleration", PASS, "VA-API and VDPAU available", FALSE, ""),
     CheckResult("Hardware Acceleration", PASS, "VA-API available", FALSE, ""),
     CheckResult("Hardware Acceleration", PASS, "VDPAU available", FALSE, ""),
     CheckResult("Hardware Acceleration", WARN, "No hardware acceleration detected", TRUE, "dnf install libva-utils vdpauinfo mesa-va-drivers")}

\* the probe table of DriverChecker.run_all_checks
DriverChecker_checks ==
    <<[name |-> "GPU Driver", check_func |-> check_gpu_driver],
      [name |-> "WiFi Driver", check_func |-> check_wifi_driver],
      [name |-> "Audio Driver", check_func |-> check_audio_driver],
      [name |-> "Bluetooth", check_func |-> check_bluetooth],
      [name |-> "USB Controllers", check_func |-> check_usb],
      [name |-> "Network (Ethernet)", check_func |-> check_ethernet],
      [name |-> "Webcam", check_func |-> check_webcam],
      [name |-> "Firmware Updates", check_func |-> check_firmware],
      [name |-> "Kernel Modules", check_func |-> check_kernel_modules],
      [name |-> "Hardware Acceleration", check_func |-> check_hw_acceleration]>>

\* checks/security.py: the results each probe of SecurityChecker constructs
check_firewall ==
    {CheckResult("Firewall (firewalld)", FAIL, "Firewall is not running", TRUE, "systemctl enable --now firewalld"),
     CheckResult("Firewall (firewalld)", PASS, "Active (zone: {zone})", FALSE, "")}

check_selinux ==
    {CheckResult("SELinux Status", WARN, "Unable to check SELinux", FALSE, ""),
     CheckResult("SELinux Status", PASS, "SELinux is enforcing", FALSE, ""),
     CheckResult("SELinux Status", WARN, "SELinux is permissive", TRUE, "setenforce 1 && sed -i 's/SELINUX=permissive/SELINUX=enforcing/' /etc/selinux/config"),
     CheckResult("SELinux Status", FAIL, "SELinux is disabled", TRUE, "sed -i 's/SELINUX=disabled/SELINUX=enforcing/' /etc/selinux/config && reboot")}

check_ssh_config ==
    {CheckResult("SSH Configuration", SKIP, "SSH server not installed", FALSE, ""),
     CheckResult("SSH Configuration", WARN, "{len(issues)} security issue(s)", TRUE, "sed -i 's/PermitRootLogin yes/PermitRootLogin no/' /etc/ssh/sshd_config && systemctl restart sshd"),
     CheckResult("SSH Configuration", PASS, "SSH configured securely", FALSE, ""),
     CheckResult("SSH Configuration", PASS, "SSH not running (secure)", FALSE, "")}

check_open_ports ==
    {CheckResult("Open Ports", SKIP, "Unable to check ports", FALSE, ""),
     CheckResult("Open Ports", WARN, "{len(listening)} ports listening", FALSE, ""),
     CheckResult("Open Ports", PASS, "{len(listening)} ports listening", FALSE, "")}

check_failed_logins ==
    {CheckResult("Failed Login Attempts", SKIP, "Unable to check login attempts", FALSE, ""),
     CheckResult("Failed Login Attempts", WARN, "{failed_count}+ failed attempts (24h)", TRUE, "dnf install fail2ban && systemctl enable --now fail2ban"),
     CheckResult("Failed Login Attempts", PASS, "{failed_count} failed attempt(s) (24h)", FALSE, ""),
     CheckResult("Failed Login Attempts", PASS, "No failed attempts (24h)", FALSE, "")}

check_root_account ==
    {CheckResult("Root Account", SKIP, "Cannot read shadow file", FALSE, ""),
     CheckResult("Root Account", PASS, "Root login disabled", FALSE, ""),
     CheckResult("Root Account", WARN, "Root has password set", FALSE, ""),
     CheckResult("Root Account", SKIP, "Cannot check root account", FALSE, ""),
     CheckResult("Root Account", PASS, "Root account secure", FALSE, "")}

check_sudo ==
    {CheckResult("Sudo Configuration", WARN, "Current user not in wheel group", FALSE, ""),
     CheckResult("Sudo Configuration", WARN, "NOPASSWD entries found", FALSE, ""),
     CheckResult("Sudo Configuration", PASS, "Sudo configured properly", FALSE, "")}

check_auto_updates ==
    {CheckResult("Automatic Updates", PASS, "dnf-automatic enabled", FALSE, ""),
     CheckResult("Automatic Updates", PASS, "PackageKit updates enabled", FALSE, ""),
     CheckResult("Automatic Updates", WARN, "Auto-updates not configured", TRUE, "dnf install dnf-automatic && systemctl enable --now dnf-automatic.timer")}

check_password_policy ==
    {CheckResult("Password Policy", WARN, "pwquality not configured", TRUE, "dnf install libpwquality"),
     CheckResult("Password Policy", WARN, "Minimum password length: {minlen}", FALSE, ""),
     CheckResult("Password Policy", PASS, "Password policy OK (min: {minlen})", FALSE, "")}

check_sensitive_files ==
    {CheckResult("File Permissions", WARN, "{len(issues)} permission issue(s)", FALSE, ""),
     CheckResult("File Permissions", PASS, "Sensitive files secured", FALSE, "")}

check_kernel_security ==
    {CheckResult("Kernel Security", WARN, "{len(issues)} setting(s) suboptimal", FALSE, ""),
     CheckResult("Kernel Security", PASS, "Kernel security OK", FALSE, "")}

check_antivirus ==
    {CheckResult("Antivirus (ClamAV)", SKIP, "ClamAV not installed", TRUE, "dnf install clamav clamav-update"),
     CheckResult("Antivirus (ClamAV)", PASS, "ClamAV installed and updating", FALSE, ""),
     CheckResult("Antivirus (ClamAV)", WARN, "ClamAV installed, updates disabled", TRUE, "systemctl enable --now clamav-freshclam")}

\* the probe table of SecurityChecker.run_all_checks
SecurityChecker_checks ==
    <<[name |-> "Firewall (firewalld)", check_func |-> check_firewall],
      [name |-> "SELinux Status", check_func |-> check_selinux],
      [name |-> "SSH Configuration", check_func |-> check_ssh_config],
      [name |-> "Open Ports", check_func |-> check_open_ports],
      [name |-> "Failed Login Attempts", check_func |-> check_failed_logins],
      [name |-> "Root Account", check_func |-> check_root_account],
      [name |-> "Sudo Configuration", check_func |-> check_sudo],
      [name |-> "Automatic Updates", check_func |-> check_auto_updates],
      [name |-> "Password Policy", check_func |-> check_password_policy],
      [name |-> "File Permissions", check_func |-> check_sensitive_files],
      [name |-> "Kernel Security", check_func |-> check_kernel_security],
      [name |-> "Antivirus (ClamAV)", check_func |-> check_antivirus]>>

\* checks/desktop.py: the results each probe of DesktopChecker constructs
check_desktop_environment ==
    {CheckResult("Desktop Environment", WARN, "Unable to detect DE", FALSE, ""),
     CheckResult("Desktop Environment", PASS, "{message}", FALSE, "")}

check_display_server ==
    {CheckResult("Display Server", PASS, "Wayland ({wayland_display})", FALSE, ""),
     CheckResult("Display Server", PASS, "X11 ({display})", FALSE, ""),
     CheckResult("Display Server", SKIP, "TTY session (no GUI)", FALSE, ""),
     CheckResult("Display Server", WARN, "Unknown display server", FALSE, "")}

check_compositor ==
    {CheckResult("Compositor", PASS, "Wayland compositor ({compositor})", FALSE, ""),
     CheckResult("Compositor", SKIP, "Cannot check compositor", FALSE, ""),
     CheckResult("Compositor", PASS, "{name} compositor active", FALSE, ""),
     CheckResult("Compositor", PASS, "Composite extension enabled", FALSE, ""),
     CheckResult("Compositor", WARN, "No compositor detected", FALSE, "")}

check_display_manager ==
    {CheckResult("Display Manager", PASS, "{name}", FALSE, ""),
     CheckResult("Display Manager", WARN, "No display manager detected", FALSE, "")}

check_resolution ==
    {CheckResult("Screen Resolution", SKIP, "Cannot detect resolution", FALSE, ""),
     CheckResult("Screen Resolution", PASS, "{', '.join(resolutions)}", FALSE, ""),
     CheckResult("Screen Resolution", PASS, "{len(connected)} display(s) connected", FALSE, ""),
     CheckResult("Screen Resolution", WARN, "No displays detected", FALSE, "")}

check_themes ==
    {CheckResult("Theme & Icons", PASS, "{theme_str[:50] + ('...' if len(theme_str) > 50 else '')}", FALSE, ""),
     CheckResult("Theme & Icons", SKIP, "Unable to detect themes", FALSE, "")}

check_fonts ==
    {CheckResult("Fonts", SKIP, "fontconfig not available", FALSE, ""),
     CheckResult("Fonts", WARN, "Only {font_count} fonts installed", TRUE, "dnf install google-noto-fonts-common liberation-fonts dejavu-fonts-all"),
     CheckResult("Fonts", PASS, "{font_count} fonts ({', '.join(found_fonts[:3])})", FALSE, "")}

check_gnome_extensions ==
    {CheckResult("GNOME Extensions", SKIP, "Not using GNOME", FALSE, ""),
     CheckResult("GNOME Extensions", SKIP, "gnome-extensions not available", FALSE, ""),
     CheckResult("GNOME Extensions", PASS, "No extensions enabled", FALSE, ""),
     CheckResult("GNOME Extensions", PASS, "{len(extensions)} enabled, {disabled_count} disabled", FALSE, "")}

check_flatpak ==
    {CheckResult("Flatpak Apps", WARN, "Flatpak not installed", TRUE, "dnf install flatpak && flatpak remote-add --if-not-exists flathub https://flathub.org/repo/flathub.flatpakrepo"),
     CheckResult("Flatpak Apps", WARN, "{app_count} app(s), Flathub not configured", TRUE, "flatpak remote-add --if-not-exists flathub https://flathub.org/repo/flathub.flatpakrepo"),
     CheckResult("Flatpak Apps", PASS, "{app_count} app(s) installed", FALSE, ""),
     CheckResult("Flatpak Apps", PASS, "Flatpak configured", FALSE, "")}

check_portals ==
    {CheckResult("Desktop Portals", WARN, "XDG portals not installed", TRUE, "dnf install xdg-desktop-portal xdg-desktop-portal-gtk"),
     CheckResult("Desktop Portals", PASS, "Active ({', '.join(installed[:3])})", FALSE, ""),
     CheckResult("Desktop Portals", WARN, "Portal service not running", TRUE, "systemctl --user enable --now xdg-desktop-portal")}

\* the probe table of DesktopChecker.run_all_checks
DesktopChecker_checks ==
    <<[name |-> "Desktop Environment", check_func |-> check_desktop_environment],
      [name |-> "Display Server", check_func |-> check_display_server],
      [name |-> "Compositor", check_func |-> check_compositor],
      [name |-> "Display Manager", check_func |-> check_display_manager],
      [name |-> "Screen Resolution", check_func |-> check_resolution],
      [name |-> "Theme & Icons", check_func |-> check_themes],
      [name |-> "Fonts", check_func |-> check_fonts],
      [name |-> "GNOME Extensions", check_func |-> check_gnome_extensions],
      [name |-> "Flatpak Apps", check_func |-> check_flatpak],
      [name |-> "Desktop Portals", check_func |-> check_portals]>>

----------------------------------------------------------------------------
(* SpecChecker: run_all_checks of the four checkers.                       *)

HEALTH == "Health Check"
DRIVER == "Driver Check"
SECURITY == "Security Check"
DESKTOP == "Desktop Check"
CategoryNames == {HEALTH, DRIVER, SECURITY, DESKTOP}

\* the probe table of the checker whose category is c
ChecksOf(c) ==
    CASE c = HEALTH -> HealthChecker_checks
      [] c = DRIVER -> DriverChecker_checks
      [] c = SECURITY -> SecurityChecker_checks
      [] c = DESKTOP -> DesktopChecker_checks

\* str(e) of the exceptions a probe raises
ExceptionTexts == {"", "[Errno 13] Permission denied"}

\* the outcome a probe takes unless it deviates: under baseline "pass" it returns a
\* Pass result, under baseline "raise" it raises an exception with an empty text
BaselineResult(probe) == CHOOSE r \in probe.check_func : r.status = PASS
Deviates(kind, value) ==
    CASE baseline = "pass" -> ~(kind = "return" /\ value = BaselineResult(ChecksOf(checker)[idx]))
      [] baseline = "raise" -> ~(kind = "raise" /\ value = "")
MayTake(kind, value) ==
    deviations + (IF Deviates(kind, value) THEN 1 ELSE 0) <= MaxDeviations
Counted(kind, value) == deviations + (IF Deviates(kind, value) THEN 1 ELSE 0)

InitChecker ==
    /\ checker \in CategoryNames
    /\ baseline \in {"pass", "raise"}
    /\ runPc = "idle"
    /\ idx = 0
    /\ results = <<>>
    /\ returned = <<>>
    /\ probeLog = <<>>
    /\ deviations = 0
    /\ IdleCategory
    /\ IdleFixer
    /\ IdleProbe
    /\ IdleApp
    /\ IdleMenu

\* self.results = []; then the for loop is entered
RunAllChecks ==
    /\ runPc = "idle"
    /\ runPc' = "loop"
    /\ results' = <<>>
    /\ idx' = 1
    /\ UNCHANGED <<checker, returned, probeLog, deviations, baseline, categoryVars, fixerVars, probeVars, appVars, menuVars>>

\* the except clause without the handler: the exception leaves run_all_checks
except_Exception_Propagates(rs, name, e) ==
    [results |-> rs, pc |-> "raised"]

\* the except clause recording str(e) alone as the message
except_Exception_BareMessage(rs, name, e) ==
    [results |-> Append(rs, CheckResult(name, ERROR, e, FALSE, "")), pc |-> "loop"]

\* except Exception as e: self.results.append(CheckResult(name=name,
\*     status=CheckStatus.ERROR, message=f"Check failed: {str(e)}"))
except_Exception(rs, name, e) ==
    [results |-> Append(rs, CheckResult(name, ERROR, "Check failed: " \o e, FALSE, "")),
     pc |-> "loop"]

\* result = check_func(); self.results.append(result)
ProbeReturns ==
    /\ runPc = "loop"
    /\ idx <= Len(ChecksOf(checker))
    /\ \E r \in ChecksOf(checker)[idx].check_func :
        /\ MayTake("return", r)
        /\ deviations' = Counted("return", r)
        /\ results' = Append(results, r)
        /\ probeLog' = Append(probeLog, [kind |-> "return", result |-> <<r>>])
    /\ idx' = idx + 1
    /\ UNCHANGED <<checker, runPc, returned, baseline, categoryVars, fixerVars, probeVars, appVars, menuVars>>

\* check_func() raises an Exception, which the except clause handles
ProbeRaises ==
    /\ runPc = "loop"
    /\ idx <= Len(ChecksOf(checker))
    /\ \E e \in ExceptionTexts :
        /\ MayTake("raise", e)
        /\ deviations' = Counted("raise", e)
        /\ LET h == except_Exception(results, ChecksOf(checker)[idx].name, e)
           IN /\ results' = h.results
              /\ runPc' = h.pc
        /\ probeLog' = Append(probeLog, [kind |-> "raise", result |-> <<>>])
    /\ idx' = idx + 1
    /\ UNCHANGED <<checker, returned, baseline, categoryVars, fixerVars, probeVars, appVars, menuVars>>

\* check_func() is interrupted: KeyboardInterrupt is no Exception and leaves the loop
ProbeInterrupted ==
    /\ runPc = "loop"
    /\ idx <= Len(ChecksOf(checker))
    /\ MayTake("interrupt", "")
    /\ deviations' = Counted("interrupt", "")
    /\ runPc' = "interrupted"
    /\ probeLog' = Append(probeLog, [kind |-> "interrupt", result |-> <<>>])
    /\ UNCHANGED <<checker, idx, results, returned, baseline, categoryVars, fixerVars, probeVars, appVars, menuVars>>

\* return CheckCategory(name=..., icon=..., results=self.results)
ReturnCategory ==
    /\ runPc = "loop"
    /\ idx > Len(ChecksOf(checker))
    /\ returned' = <<CheckCategory(checker, results)>>
    /\ runPc' = "returned"
    /\ UNCHANGED <<checker, idx, results, probeLog, deviations, baseline, categoryVars, fixerVars, probeVars, appVars, menuVars>>

NextChecker ==
    \/ RunAllChecks
    \/ ProbeReturns
    \/ ProbeRaises
    \/ ProbeInterrupted
    \/ ReturnCategory

SpecChecker == InitChecker /\ [][NextChecker]_vars

\* the probe table of the running checker
Table == ChecksOf(checker)

\* C4: run_all_checks returns a CheckCategory with exactly one result per entry of
\* the probe table, in table order, whichever probes return and whichever raise an
\* exception (all of them included), and no Exception leaves run_all_checks.
C4_OneResultPerProbe ==
    /\ runPc # "raised"
    /\ runPc = "loop" => Len(results) = idx - 1
    /\ (runPc = "loop" /\ idx > Len(Table)) => ENABLED ReturnCategory
    /\ runPc = "returned" =>
        /\ Len(returned) = 1
        /\ returned[1].name = checker
        /\ Len(returned[1].results) = Len(Table)
        /\ \A i \in 1..Len(Table) : returned[1].results[i].name = Table[i].name

C4_Witness ==
    /\ runPc = "returned"
    /\ Len(returned[1].results) = Len(Table)
    /\ \A i \in DOMAIN probeLog : probeLog[i].kind = "raise"

\* C5: a probe that raised is recorded as a result of status Error carrying the
\* probe's table name and a non-empty message; every other probe of the run is
\* recorded as exactly the result it returned.
C5_RaisingProbeIsolated ==
    LET rs == IF runPc = "returned" THEN returned[1].results ELSE results
    IN \A i \in DOMAIN rs :
        /\ i \in DOMAIN probeLog
        /\ probeLog[i].kind \in {"raise", "return"}
        /\ probeLog[i].kind = "raise" =>
            /\ rs[i].status = ERROR
            /\ rs[i].name = Table[i].name
            /\ rs[i].message # ""
        /\ probeLog[i].kind = "return" => rs[i] = probeLog[i].result[1]

C5_Witness ==
    /\ runPc = "returned"
    /\ Cardinality({i \in DOMAIN probeLog : probeLog[i].kind = "raise"}) = 1
    /\ \E i \in DOMAIN probeLog :
        /\ probeLog[i].kind = "raise"
        /\ returned[1].results[i].status = ERROR
        /\ i < Len(Table)
        /\ returned[1].results[i + 1].status # ERROR

\* C8: every CheckResult a probe returns or run_all_checks records has
\* fix_available true exactly when its fix_command is not empty.
C8_FixAvailableIffCommand ==
    /\ \A i \in DOMAIN results :
        results[i].fix_available <=> (results[i].fix_command # "")
    /\ runPc = "returned" =>
        \A i \in DOMAIN returned[1].results :
            returned[1].results[i].fix_available <=> (returned[1].results[i].fix_command # "")

C8_Witness ==
    /\ runPc = "returned"
    /\ \E i \in DOMAIN returned[1].results :
        returned[1].results[i].fix_available /\ returned[1].results[i].fix_command # ""
    /\ \E i \in DOMAIN returned[1].results :
        returned[1].results[i].status = ERROR /\ ~returned[1].results[i].fix_available

\* C19: in every CheckCategory run_all_checks returns the result names are pairwise
\* distinct and the i-th result is named as the i-th entry of the probe table,
\* whichever branch each probe took and whether it returned or raised.
C19_NamesDistinctAndTabled ==
    runPc = "returned" =>
        LET rs == returned[1].results
        IN /\ DOMAIN rs = DOMAIN Table
           /\ \A i \in DOMAIN rs : rs[i].name = Table[i].name
           /\ \A i \in DOMAIN rs : \A j \in DOMAIN rs : i # j => rs[i].name # rs[j].name

C19_Witness ==
    /\ runPc = "returned"
    /\ \E i \in DOMAIN probeLog : probeLog[i].kind = "raise"
    /\ \E j \in DOMAIN probeLog :
        probeLog[j].kind = "return" /\ returned[1].results[j].status \in {FAIL, WARN}

----------------------------------------------------------------------------
(* fixes/*.py: _run_command, FixResult and the remediation handlers.       *)
(*                                                                         *)
(* A handler is an operator of env: env.o[k] is what the process started   *)
(* by the handler's k-th _run_command call does, and the other fields are  *)
(* what the handler reads from the system.  It yields the calls it made,   *)
(* in order, and the FixResult it returns.                                 *)

\* what a process started by subprocess.run can do
Exit0 == [kind |-> "exit", code |-> 0, out |-> "Complete!"]
Exit0Reboot == [kind |-> "exit", code |-> 0, out |-> "Successfully installed firmware. Reboot to apply."]
Exit1 == [kind |-> "exit", code |-> 1, out |-> "Error: command failed"]
Exit1Already == [kind |-> "exit", code |-> 1, out |-> "Package firewalld is already installed."]
Exit2NoUpgrades == [kind |-> "exit", code |-> 2, out |-> "No upgrades for device firmware"]
TimeoutExpired == [kind |-> "timeout", code |-> 0, out |-> ""]
FileNotFound == [kind |-> "notfound", code |-> 0, out |-> ""]
\* subprocess.run raises an OSError that is no FileNotFoundError (PermissionError
\* when the program may not be executed, BlockingIOError when fork fails, ...)
OtherOSError == [kind |-> "oserror", code |-> 0, out |-> ""]
ProcessOutcomes ==
    {Exit0, Exit0Reboot, Exit1, Exit1Already, Exit2NoUpgrades, TimeoutExpired, FileNotFound,
     OtherOSError}

\* needle in text, for the needles and the texts the fixers test
ContainsTable ==
    {<<"blocked", "{driver} driver loaded, wifi blocked">>,
     <<"blocked", "bluetooth is blocked">>,
     <<"wifi", "wifi driver">>,
     <<"bluetooth", "bluetooth">>,
     <<"$", "dnf install -y https://download1.rpmfusion.org/free/fedora/rpmfusion-free-release-$(rpm -E %fedora).noarch.rpm https://download1.rpmfusion.org/nonfree/fedora/rpmfusion-nonfree-release-$(rpm -E %fedora).noarch.rpm">>,
     <<"RPM Fusion", "Enabling RPM Fusion">>,
     <<"already installed", "package firewalld is already installed.">>,
     <<"No upgrades", "No upgrades for device firmware">>,
     <<"No updates", "No updates available">>,
     <<"inactive", "inactive">>,
     <<"reboot", "successfully installed firmware. reboot to apply.">>,
     <<"gnome", "gnome">>,
     <<"kde", "kde">>,
     <<"plasma", "plasma">>}
Contains(needle, text) == <<needle, text>> \in ContainsTable

\* text.lower(), for the texts the fixers lower
Lower(text) ==
    CASE text = "{driver} driver loaded, WiFi blocked" -> "{driver} driver loaded, wifi blocked"
      [] text = "Bluetooth is blocked" -> "bluetooth is blocked"
      [] text = "WiFi Driver" -> "wifi driver"
      [] text = "Bluetooth" -> "bluetooth"
      [] text = "Complete!" -> "complete!"
      [] text = "Successfully installed firmware. Reboot to apply." -> "successfully installed firmware. reboot to apply."
      [] text = "Error: command failed" -> "error: command failed"
      [] text = "Package firewalld is already installed." -> "package firewalld is already installed."
      [] text = "No upgrades for device firmware" -> "no upgrades for device firmware"
      [] text = "Command timed out" -> "command timed out"
      [] text = "[Errno 2] No such file or directory: 'sudo'" -> "[errno 2] no such file or directory: 'sudo'"
      [] OTHER -> text

\* sep.join(parts)
RECURSIVE Join(_, _)
Join(parts, sep) ==
    IF parts = <<>> THEN ""
    ELSE IF Len(parts) = 1 THEN parts[1]
    ELSE parts[1] \o sep \o Join(Tail(parts), sep)

FixResult(success, message, details, requires_reboot) ==
    [success |-> success, message |-> message, details |-> details,
     requires_reboot |-> requires_reboot]

\* _run_command: (success, output) for what the process did.  The four fixers
\* define it alike; the timeout argument decides only whether the process times out.
\* Its two except clauses catch TimeoutExpired and FileNotFoundError; any other
\* exception of subprocess.run leaves _run_command: raised is TRUE, and no pair is
\* returned (the pair below is never used: Propagate cuts the handler off there).
run_command(proc) ==
    CASE proc.kind = "exit" -> [success |-> proc.code = 0, output |-> proc.out, raised |-> FALSE]
      [] proc.kind = "timeout" ->
            [success |-> FALSE, output |-> "Command timed out", raised |-> FALSE]
      [] proc.kind = "notfound" ->
            [success |-> FALSE, output |-> "[Errno 2] No such file or directory: 'sudo'",
             raised |-> FALSE]
      [] proc.kind = "oserror" ->
            [success |-> FALSE, output |-> "", raised |-> TRUE]

\* the record of one _run_command call: the argv passed to subprocess.run, the
\* (success, output) the call returned, and the description of the step it belongs to
Ran(cmd, sudo, proc, desc) ==
    [argv |-> IF sudo THEN <<"sudo">> \o cmd ELSE cmd,
     success |-> run_command(proc).success,
     output |-> run_command(proc).output,
     raised |-> run_command(proc).raised,
     desc |-> desc]

Step(desc, cmd, sudo) == [desc |-> desc, cmd |-> cmd, sudo |-> sudo]

\* the step loop that goes on to the next step whatever the step's command did
RECURSIVE StepLoop_NeverStops(_, _, _, _, _)
StepLoop_NeverStops(steps, o, fatal, i, ran) ==
    IF i > Len(steps) THEN [commands |-> ran, failedAt |-> 0, output |-> ""]
    ELSE StepLoop_NeverStops(steps, o, fatal, i + 1,
                             Append(ran, Ran(steps[i].cmd, steps[i].sudo, o[i], steps[i].desc)))

\* for desc, cmd in steps: success, output = self._run_command(cmd, ...);
\* if <fatal>: return FixResult(success=False, message=f"Failed at: {desc}", ...)
\* fatal[i] is the handler's own test on step i's outcome.  failedAt is the step
\* the loop returned at, 0 when it ran to its end.
RECURSIVE StepLoop(_, _, _, _, _)
StepLoop(steps, o, fatal, i, ran) ==
    IF i > Len(steps) THEN [commands |-> ran, failedAt |-> 0, output |-> ""]
    ELSE LET ran2 == Append(ran, Ran(steps[i].cmd, steps[i].sudo, o[i], steps[i].desc))
         IN IF fatal[i]
            THEN [commands |-> ran2, failedAt |-> i, output |-> run_command(o[i]).output]
            ELSE StepLoop(steps, o, fatal, i + 1, ran2)

\* a handler that makes one call and reports on it
OneCommand(cmd, proc, okResult, failMessage) ==
    [commands |-> <<Ran(cmd, TRUE, proc, "")>>,
     result |-> IF run_command(proc).success THEN okResult
                ELSE FixResult(FALSE, failMessage, run_command(proc).output, FALSE)]

(* fixes/health_fix.py *)

fix_disk_space(env) ==
    LET steps == <<Step("Cleaning DNF cache", <<"dnf", "clean", "all">>, TRUE),
                   Step("Removing orphaned packages", <<"dnf", "autoremove", "-y">>, TRUE),
                   Step("Cleaning old kernels", <<"dnf", "remove", "--oldinstallonly", "-y">>, TRUE),
                   Step("Cleaning journal logs", <<"journalctl", "--vacuum-time=7d">>, TRUE)>>
        ran == [i \in 1..Len(steps) |-> Ran(steps[i].cmd, TRUE, env.o[i], steps[i].desc)]
        cleaned == SelectSeq(ran, LAMBDA c : c.success)
        failedSteps == SelectSeq(ran, LAMBDA c : ~c.success)
        descs(cs) == [i \in 1..Len(cs) |-> cs[i].desc]
    IN [commands |-> ran,
        result |->
            IF failedSteps # <<>>
            THEN FixResult(FALSE,
                           "Partial cleanup: " \o ToString(Len(cleaned)) \o "/"
                               \o ToString(Len(steps)) \o " steps completed",
                           "Failed: " \o Join(descs(failedSteps), ", "), FALSE)
            ELSE FixResult(TRUE, "Disk cleanup completed",
                           "Completed: " \o Join(descs(cleaned), ", "), FALSE)]

fix_failed_units(env) ==
    OneCommand(<<"systemctl", "reset-failed">>, env.o[1],
               FixResult(TRUE, "Failed units reset", "", FALSE), "Failed to reset units")

fix_dnf_issues(env) ==
    LET steps == <<Step("Rebuilding RPM database", <<"rpm", "--rebuilddb">>, TRUE),
                   Step("Cleaning DNF cache", <<"dnf", "clean", "all">>, TRUE),
                   Step("Checking for problems", <<"dnf", "check">>, TRUE),
                   Step("Syncing distribution", <<"dnf", "distro-sync", "-y">>, TRUE)>>
        fatal == [i \in 1..Len(steps) |-> ~run_command(env.o[i]).success]
        loop == StepLoop(steps, env.o, fatal, 1, <<>>)
    IN [commands |-> loop.commands,
        result |->
            IF loop.failedAt # 0
            THEN FixResult(FALSE, "Failed at: " \o steps[loop.failedAt].desc, loop.output, FALSE)
            ELSE FixResult(TRUE, "Package manager issues fixed", "", FALSE)]

fix_orphaned_packages(env) ==
    LET r == run_command(env.o[1])
    IN [commands |-> <<Ran(<<"dnf", "autoremove", "-y">>, TRUE, env.o[1], "")>>,
        result |-> IF r.success
                   THEN FixResult(TRUE, "Removed orphaned packages", r.output, FALSE)
                   ELSE FixResult(FALSE, "Failed to remove orphaned packages", r.output, FALSE)]

\* env.swapfile_exists is os.path.exists("/swapfile"); env.fstab is what
\* open("/etc/fstab", "a") and f.write do: "written" or "PermissionError"
create_swap(env) ==
    LET swapfile == "/swapfile"
        steps == <<Step("Allocating space", <<"fallocate", "-l", "4G", swapfile>>, TRUE),
                   Step("Setting permissions", <<"chmod", "600", swapfile>>, TRUE),
                   Step("Formatting swap", <<"mkswap", swapfile>>, TRUE),
                   Step("Enabling swap", <<"swapon", swapfile>>, TRUE)>>
        fatal == [i \in 1..Len(steps) |-> ~run_command(env.o[i]).success]
        loop == StepLoop(steps, env.o, fatal, 1, <<>>)
        cleanup == Ran(<<"rm", "-f", swapfile>>, TRUE, env.o[loop.failedAt + 1], "")
        echo == Ran(<<"bash", "-c", "echo '/swapfile none swap sw 0 0' >> /etc/fstab">>,
                    TRUE, env.o[Len(steps) + 1], "")
    IN IF env.swapfile_exists
       THEN [commands |-> <<>>,
             result |-> FixResult(FALSE, "Swap file already exists",
                                  "Remove /swapfile first if you want to recreate it", FALSE)]
       ELSE IF loop.failedAt # 0
       THEN [commands |-> Append(loop.commands, cleanup),
             result |-> FixResult(FALSE, "Failed at: " \o steps[loop.failedAt].desc,
                                  loop.output, FALSE)]
       ELSE [commands |-> IF env.fstab = "PermissionError"
                          THEN Append(loop.commands, echo) ELSE loop.commands,
             result |-> FixResult(TRUE, "Created 4GB swap file",
                                  "Swap is now active and will persist across reboots", FALSE)]

(* fixes/driver_fix.py *)

install_nvidia_driver(env) ==
    LET listed ==
            <<Step("Enabling RPM Fusion",
                   <<"dnf", "install", "-y",
                     "https://download1.rpmfusion.org/free/fedora/rpmfusion-free-release-$(rpm -E %fedora).noarch.rpm",
                     "https://download1.rpmfusion.org/nonfree/fedora/rpmfusion-nonfree-release-$(rpm -E %fedora).noarch.rpm">>,
                   TRUE),
              Step("Installing NVIDIA driver", <<"dnf", "install", "-y", "akmod-nvidia">>, TRUE),
              Step("Installing CUDA support",
                   <<"dnf", "install", "-y", "xorg-x11-drv-nvidia-cuda">>, TRUE)>>
        \* if "$" in " ".join(cmd): the command goes through bash -c
        steps == [i \in 1..Len(listed) |->
                    IF Contains("$", Join(listed[i].cmd, " "))
                    THEN Step(listed[i].desc, <<"bash", "-c", Join(listed[i].cmd, " ")>>, TRUE)
                    ELSE listed[i]]
        fatal == [i \in 1..Len(steps) |->
                    ~run_command(env.o[i]).success /\ ~Contains("RPM Fusion", steps[i].desc)]
        loop == StepLoop(steps, env.o, fatal, 1, <<>>)
    IN [commands |-> loop.commands,
        result |->
            IF loop.failedAt # 0
            THEN FixResult(FALSE, "Failed at: " \o steps[loop.failedAt].desc, loop.output, FALSE)
            ELSE FixResult(TRUE, "NVIDIA driver installed",
                           "Reboot required to load the new driver", TRUE)]

install_wifi_firmware(env) ==
    OneCommand(<<"dnf", "install", "-y", "linux-firmware", "iwl*-firmware", "atheros-firmware",
                 "b43-openfwwf", "brcmfmac-firmware">>, env.o[1],
               FixResult(TRUE, "WiFi firmware installed",
                         "You may need to reboot or reload the WiFi module", TRUE),
               "Failed to install firmware")

unblock_wifi(env) ==
    OneCommand(<<"rfkill", "unblock", "wifi">>, env.o[1],
               FixResult(TRUE, "WiFi unblocked", "", FALSE), "Failed to unblock WiFi")

install_audio_drivers(env) ==
    OneCommand(<<"dnf", "install", "-y", "alsa-firmware", "alsa-plugins-pulseaudio",
                 "pipewire-alsa", "sof-firmware">>, env.o[1],
               FixResult(TRUE, "Audio packages installed", "", TRUE),
               "Failed to install audio packages")

enable_bluetooth(env) ==
    LET steps == <<Step("Unblocking Bluetooth", <<"rfkill", "unblock", "bluetooth">>, TRUE),
                   Step("Enabling service", <<"systemctl", "enable", "--now", "bluetooth">>, TRUE)>>
        fatal == [i \in 1..Len(steps) |-> ~run_command(env.o[i]).success]
        loop == StepLoop(steps, env.o, fatal, 1, <<>>)
    IN [commands |-> loop.commands,
        result |->
            IF loop.failedAt # 0
            THEN FixResult(FALSE, "Failed at: " \o steps[loop.failedAt].desc, loop.output, FALSE)
            ELSE FixResult(TRUE, "Bluetooth enabled", "", FALSE)]

install_hw_acceleration(env) ==
    OneCommand(<<"dnf", "install", "-y", "libva-utils", "vdpauinfo", "mesa-va-drivers",
                 "mesa-vdpau-drivers", "libva-intel-driver", "intel-media-driver">>, env.o[1],
               FixResult(TRUE, "Hardware acceleration installed", "", FALSE),
               "Failed to install packages")

update_firmware(env) ==
    LET refresh == Ran(<<"fwupdmgr", "refresh", "--force">>, TRUE, env.o[1], "")
        update == Ran(<<"fwupdmgr", "update", "-y">>, TRUE, env.o[2], "")
        r == run_command(env.o[2])
    IN [commands |-> <<refresh, update>>,
        result |->
            IF r.success \/ Contains("No upgrades", r.output)
            THEN FixResult(TRUE, "Firmware updated", "", Contains("reboot", Lower(r.output)))
            ELSE FixResult(FALSE, "Failed to update firmware", r.output, FALSE)]

(* fixes/security_fix.py *)

enable_firewall(env) ==
    LET steps == <<Step("Installing firewalld", <<"dnf", "install", "-y", "firewalld">>, TRUE),
                   Step("Enabling service", <<"systemctl", "enable", "--now", "firewalld">>, TRUE),
                   Step("Setting default zone",
                        <<"firewall-cmd", "--set-default-zone=FedoraWorkstation">>, TRUE)>>
        fatal == [i \in 1..Len(steps) |->
                    /\ ~run_command(env.o[i]).success
                    /\ ~Contains("already installed", Lower(run_command(env.o[i]).output))]
        loop == StepLoop(steps, env.o, fatal, 1, <<>>)
    IN [commands |-> loop.commands,
        result |->
            IF loop.failedAt # 0
            THEN FixResult(FALSE, "Failed at: " \o steps[loop.failedAt].desc, loop.output, FALSE)
            ELSE FixResult(TRUE, "Firewall enabled and configured", "", FALSE)]

enforce_selinux(env) ==
    LET setenforce == Ran(<<"setenforce", "1">>, TRUE, env.o[1], "")
        sed1 == Ran(<<"sed", "-i", "s/SELINUX=permissive/SELINUX=enforcing/",
                      "/etc/selinux/config">>, TRUE, env.o[2], "")
        sed2 == Ran(<<"sed", "-i", "s/SELINUX=disabled/SELINUX=enforcing/",
                      "/etc/selinux/config">>, TRUE, env.o[3], "")
        r == run_command(env.o[1])
    IN IF ~r.success
       THEN [commands |-> <<setenforce>>,
             result |-> FixResult(FALSE, "Failed to enable SELinux", r.output, FALSE)]
       ELSE [commands |-> <<setenforce, sed1, sed2>>,
             result |-> FixResult(TRUE, "SELinux set to enforcing",
                                  "Configuration updated for persistence", FALSE)]

harden_ssh(env) ==
    LET settings == <<<<"PermitRootLogin", "no">>, <<"PermitEmptyPasswords", "no">>,
                      <<"MaxAuthTries", "3">>, <<"ClientAliveInterval", "300">>,
                      <<"ClientAliveCountMax", "2">>>>
        seds == [i \in 1..Len(settings) |->
                    Ran(<<"sed", "-i",
                          "s/^#*" \o settings[i][1] \o ".*/" \o settings[i][1] \o " "
                              \o settings[i][2] \o "/",
                          "/etc/ssh/sshd_config">>, TRUE, env.o[i], "")]
        restart == Ran(<<"systemctl", "restart", "sshd">>, TRUE, env.o[Len(settings) + 1], "")
        r == run_command(env.o[Len(settings) + 1])
    IN [commands |-> Append(seds, restart),
        result |-> IF r.success
                   THEN FixResult(TRUE, "SSH hardened", "Root login disabled, auth limits set", FALSE)
                   ELSE FixResult(FALSE, "Failed to restart SSH", r.output, FALSE)]

install_fail2ban(env) ==
    LET install == Ran(<<"dnf", "install", "-y", "fail2ban">>, TRUE, env.o[1], "")
        write == Ran(<<"bash", "-c", "echo '{jail_config}' > /etc/fail2ban/jail.local">>,
                     TRUE, env.o[2], "")
        enable == Ran(<<"systemctl", "enable", "--now", "fail2ban">>, TRUE, env.o[3], "")
        r1 == run_command(env.o[1])
        r3 == run_command(env.o[3])
    IN IF ~r1.success
       THEN [commands |-> <<install>>,
             result |-> FixResult(FALSE, "Failed to install fail2ban", r1.output, FALSE)]
       ELSE [commands |-> <<install, write, enable>>,
             result |-> IF r3.success
                        THEN FixResult(TRUE, "fail2ban installed and configured", "", FALSE)
                        ELSE FixResult(FALSE, "Failed to enable fail2ban", r3.output, FALSE)]

enable_auto_updates(env) ==
    LET install == Ran(<<"dnf", "install", "-y", "dnf-automatic">>, TRUE, env.o[1], "")
        config == Ran(<<"bash", "-c", "{config_cmd}">>, TRUE, env.o[2], "")
        enable == Ran(<<"systemctl", "enable", "--now", "dnf-automatic.timer">>,
                      TRUE, env.o[3], "")
        r1 == run_command(env.o[1])
        r3 == run_command(env.o[3])
    IN IF ~r1.success
       THEN [commands |-> <<install>>,
             result |-> FixResult(FALSE, "Failed to install dnf-automatic", r1.output, FALSE)]
       ELSE [commands |-> <<install, config, enable>>,
             result |-> IF r3.success
                        THEN FixResult(TRUE, "Automatic security updates enabled", "", FALSE)
                        ELSE FixResult(FALSE, "Failed to enable auto-updates", r3.output, FALSE)]

install_clamav(env) ==
    LET install == Ran(<<"dnf", "install", "-y", "clamav", "clamav-update", "clamd">>,
                       TRUE, env.o[1], "")
        freshclam == Ran(<<"freshclam">>, TRUE, env.o[2], "")
        enable == Ran(<<"systemctl", "enable", "--now", "clamav-freshclam">>, TRUE, env.o[3], "")
        r1 == run_command(env.o[1])
    IN IF ~r1.success
       THEN [commands |-> <<install>>,
             result |-> FixResult(FALSE, "Failed to install ClamAV", r1.output, FALSE)]
       ELSE [commands |-> <<install, freshclam, enable>>,
             result |-> FixResult(TRUE, "ClamAV installed and updating", "", FALSE)]

fix_file_permissions(env) ==
    LET files == <<<<"/etc/passwd", "644">>, <<"/etc/shadow", "000">>,
                   <<"/etc/gshadow", "000">>, <<"/etc/sudoers", "440">>>>
        ran == [i \in 1..Len(files) |->
                    Ran(<<"chmod", files[i][2], files[i][1]>>, TRUE, env.o[i], "")]
        fixed == SelectSeq(ran, LAMBDA c : c.success)
    IN [commands |-> ran,
        result |-> FixResult(Len(fixed) = Len(files),
                             "Fixed " \o ToString(Len(fixed)) \o "/" \o ToString(Len(files))
                                 \o " file permissions", "", FALSE)]

(* fixes/desktop_fix.py *)

install_fonts(env) ==
    LET install == Ran(<<"dnf", "install", "-y", "google-noto-fonts-common",
                         "google-noto-sans-fonts", "google-noto-serif-fonts", "liberation-fonts",
                         "dejavu-fonts-all", "fira-code-fonts", "mozilla-fira-sans-fonts",
                         "adobe-source-code-pro-fonts">>, TRUE, env.o[1], "")
        cache == Ran(<<"fc-cache", "-fv">>, FALSE, env.o[2], "")
        r == run_command(env.o[1])
    IN IF r.success
       THEN [commands |-> <<install, cache>>,
             result |-> FixResult(TRUE, "Fonts installed successfully", "", FALSE)]
       ELSE [commands |-> <<install>>,
             result |-> FixResult(FALSE, "Failed to install fonts", r.output, FALSE)]

install_flatpak(env) ==
    LET listed == <<[desc |-> "Installing Flatpak", cmd |-> <<"dnf", "install", "-y", "flatpak">>],
                    [desc |-> "Adding Flathub",
                     cmd |-> <<"flatpak", "remote-add", "--if-not-exists", "flathub",
                               "https://flathub.org/repo/flathub.flatpakrepo">>]>>
        \* sudo = "dnf" in cmd
        steps == [i \in 1..Len(listed) |->
                    Step(listed[i].desc, listed[i].cmd,
                         \E k \in DOMAIN listed[i].cmd : listed[i].cmd[k] = "dnf")]
        fatal == [i \in 1..Len(steps) |-> ~run_command(env.o[i]).success]
        loop == StepLoop(steps, env.o, fatal, 1, <<>>)
    IN [commands |-> loop.commands,
        result |->
            IF loop.failedAt # 0
            THEN FixResult(FALSE, "Failed at: " \o steps[loop.failedAt].desc, loop.output, FALSE)
            ELSE FixResult(TRUE, "Flatpak configured with Flathub",
                           "You may need to log out and back in for apps to appear", FALSE)]

\* env.de is os.environ.get("XDG_CURRENT_DESKTOP", "").lower()
install_portals(env) ==
    LET portal == IF Contains("gnome", env.de) THEN "xdg-desktop-portal-gnome"
                  ELSE IF Contains("kde", env.de) \/ Contains("plasma", env.de)
                       THEN "xdg-desktop-portal-kde"
                  ELSE "xdg-desktop-portal-gtk"
        install == Ran(<<"dnf", "install", "-y", "xdg-desktop-portal", portal>>,
                       TRUE, env.o[1], "")
        enable == Ran(<<"systemctl", "--user", "enable", "--now", "xdg-desktop-portal">>,
                      FALSE, env.o[2], "")
        r == run_command(env.o[1])
    IN IF ~r.success
       THEN [commands |-> <<install>>,
             result |-> FixResult(FALSE, "Failed to install portals", r.output, FALSE)]
       ELSE [commands |-> <<install, enable>>,
             result |-> FixResult(TRUE, "Desktop portals installed", "", FALSE)]

\* the lines of the output of gnome-extensions list --enabled name the extensions
fix_gnome_extensions(env) ==
    LET list == Ran(<<"gnome-extensions", "list", "--enabled">>, FALSE, env.o[1], "")
        r == run_command(env.o[1])
        \* [e.strip() for e in output.split('\n') if e.strip()]: the outputs are one line each
        extensions == IF r.output = "" THEN <<>> ELSE <<r.output>>
        disable == [i \in 1..Len(extensions) |->
                        Ran(<<"gnome-extensions", "disable", extensions[i]>>,
                            FALSE, env.o[1 + i], "")]
        enable == [i \in 1..Len(extensions) |->
                        Ran(<<"gnome-extensions", "enable", extensions[i]>>,
                            FALSE, env.o[1 + Len(extensions) + i], "")]
        enabled == Len(SelectSeq(enable, LAMBDA c : c.success))
    IN IF ~r.success
       THEN [commands |-> <<list>>,
             result |-> FixResult(FALSE, "Cannot access GNOME extensions", r.output, FALSE)]
       ELSE IF extensions = <<>>
       THEN [commands |-> <<list>>,
             result |-> FixResult(TRUE, "No extensions to manage", "", FALSE)]
       ELSE [commands |-> <<list>> \o disable \o enable,
             result |-> FixResult(TRUE, "Reset " \o ToString(enabled) \o " extensions",
                                  "Extensions have been reloaded", FALSE)]

configure_display_manager(env) ==
    LET dm == IF Contains("kde", env.de) \/ Contains("plasma", env.de) THEN "sddm" ELSE "gdm"
        install == Ran(<<"dnf", "install", "-y", dm>>, TRUE, env.o[1], "")
        enable == Ran(<<"systemctl", "enable", dm>>, TRUE, env.o[2], "")
        target == Ran(<<"systemctl", "set-default", "graphical.target">>, TRUE, env.o[3], "")
        r == run_command(env.o[2])
    IN [commands |-> <<install, enable, target>>,
        result |-> IF r.success
                   THEN FixResult(TRUE, "{dm.upper()} enabled", "", FALSE)
                   ELSE FixResult(FALSE, "Failed to configure display manager", r.output, FALSE)]

\* the generic fix of apply_fix: _run_command(["bash", "-c", fix_command], sudo=True)
generic_fix(fix_command, env) ==
    LET r == run_command(env.o[1])
    IN [commands |-> <<Ran(<<"bash", "-c", fix_command>>, TRUE, env.o[1], "")>>,
        result |-> FixResult(r.success, IF r.success THEN "Fix applied" ELSE "Fix failed",
                             r.output, FALSE)]

\* fix_map of each apply_fix: the result name and the handler registered for it
HealthFixer_fix_map ==
    ("Disk Space" :> "fix_disk_space") @@ ("Failed Systemd Units" :> "fix_failed_units")
    @@ ("Package Manager" :> "fix_dnf_issues") @@ ("Orphaned Packages" :> "fix_orphaned_packages")
    @@ ("Swap Space" :> "create_swap")

DriverFixer_fix_map ==
    ("GPU Driver" :> "install_nvidia_driver") @@ ("WiFi Driver" :> "install_wifi_firmware")
    @@ ("Audio Driver" :> "install_audio_drivers") @@ ("Bluetooth" :> "enable_bluetooth")
    @@ ("Firmware Updates" :> "update_firmware")
    @@ ("Hardware Acceleration" :> "install_hw_acceleration")

SecurityFixer_fix_map ==
    ("Firewall (firewalld)" :> "enable_firewall") @@ ("SELinux Status" :> "enforce_selinux")
    @@ ("SSH Configuration" :> "harden_ssh") @@ ("Failed Login Attempts" :> "install_fail2ban")
    @@ ("Automatic Updates" :> "enable_auto_updates") @@ ("Antivirus (ClamAV)" :> "install_clamav")
    @@ ("File Permissions" :> "fix_file_permissions")

DesktopFixer_fix_map ==
    ("Fonts" :> "install_fonts") @@ ("Flatpak Apps" :> "install_flatpak")
    @@ ("Desktop Portals" :> "install_portals") @@ ("GNOME Extensions" :> "fix_gnome_extensions")
    @@ ("Display Manager" :> "configure_display_manager")

\* fixer_map of _run_auto_fix picks the fixer by the category's name
fix_map(f) ==
    CASE f = HEALTH -> HealthFixer_fix_map
      [] f = DRIVER -> DriverFixer_fix_map
      [] f = SECURITY -> SecurityFixer_fix_map
      [] f = DESKTOP -> DesktopFixer_fix_map

\* calling the handler named id (a bound method of the fixer; "generic" is the generic fix)
Handler(id, env) ==
    CASE id = "fix_disk_space" -> fix_disk_space(env)
      [] id = "fix_failed_units" -> fix_failed_units(env)
      [] id = "fix_dnf_issues" -> fix_dnf_issues(env)
      [] id = "fix_orphaned_packages" -> fix_orphaned_packages(env)
      [] id = "create_swap" -> create_swap(env)
      [] id = "install_nvidia_driver" -> install_nvidia_driver(env)
      [] id = "install_wifi_firmware" -> install_wifi_firmware(env)
      [] id = "unblock_wifi" -> unblock_wifi(env)
      [] id = "install_audio_drivers" -> install_audio_drivers(env)
      [] id = "enable_bluetooth" -> enable_bluetooth(env)
      [] id = "install_hw_acceleration" -> install_hw_acceleration(env)
      [] id = "update_firmware" -> update_firmware(env)
      [] id = "enable_firewall" -> enable_firewall(env)
      [] id = "enforce_selinux" -> enforce_selinux(env)
      [] id = "harden_ssh" -> harden_ssh(env)
      [] id = "install_fail2ban" -> install_fail2ban(env)
      [] id = "enable_auto_updates" -> enable_auto_updates(env)
      [] id = "install_clamav" -> install_clamav(env)
      [] id = "fix_file_permissions" -> fix_file_permissions(env)
      [] id = "install_fonts" -> install_fonts(env)
      [] id = "install_flatpak" -> install_flatpak(env)
      [] id = "install_portals" -> install_portals(env)
      [] id = "fix_gnome_extensions" -> fix_gnome_extensions(env)
      [] id = "configure_display_manager" -> configure_display_manager(env)
      [] id = "generic" -> generic_fix(check_result.fix_command, env)

\* the most _run_command calls one run of the handler makes
Calls(id) ==
    CASE id \in {"fix_failed_units", "fix_orphaned_packages", "install_wifi_firmware",
                 "unblock_wifi", "install_audio_drivers", "install_hw_acceleration",
                 "generic"} -> 1
      [] id \in {"enable_bluetooth", "update_firmware", "install_fonts", "install_flatpak",
                 "install_portals"} -> 2
      [] id \in {"install_nvidia_driver", "enable_firewall", "enforce_selinux",
                 "install_fail2ban", "enable_auto_updates", "install_clamav",
                 "fix_gnome_extensions", "configure_display_manager"} -> 3
      [] id \in {"fix_disk_space", "fix_dnf_issues", "fix_file_permissions"} -> 4
      [] id = "create_swap" -> 5
      [] id = "harden_ssh" -> 6

\* XDG_CURRENT_DESKTOP, lowered
DesktopEnvs == {"gnome", "kde", "plasma", "xfce"}

\* what the system can do to one run of the handler
Envs(id) ==
    {[o |-> o, swapfile_exists |-> s, fstab |-> f, de |-> d] :
        o \in [1..Calls(id) -> ProcessOutcomes],
        s \in IF id = "create_swap" THEN BOOLEAN ELSE {FALSE},
        f \in IF id = "create_swap" THEN {"written", "PermissionError"} ELSE {"written"},
        d \in IF id \in {"install_portals", "configure_display_manager"}
              THEN DesktopEnvs ELSE {"gnome"}}

----------------------------------------------------------------------------
(* SpecFixer: one apply_fix call of the fixer _run_auto_fix creates for    *)
(* the result's category, on a result _run_auto_fix passes to it.          *)

\* the filter of _run_auto_fix without its test of the status
Fixable_AnyStatus(r) == r.fix_available

\* main.py: if result.fix_available and result.status in (FAIL, WARN)
Fixable(r) == r.fix_available /\ r.status \in {FAIL, WARN}

\* the results run_all_checks of category c can hold
ResultsOf(c) ==
    UNION {ChecksOf(c)[i].check_func : i \in DOMAIN ChecksOf(c)}
    \cup {except_Exception(<<>>, ChecksOf(c)[i].name, e).results[1] :
            i \in DOMAIN ChecksOf(c), e \in ExceptionTexts}

InitFixer ==
    /\ fixer \in CategoryNames
    /\ check_result \in {r \in ResultsOf(fixer) : Fixable(r)}
    /\ fixPc = "idle"
    /\ events = <<>>
    /\ fix_result = <<>>
    /\ IdleCategory
    /\ IdleChecker
    /\ IdleProbe
    /\ IdleApp
    /\ IdleMenu

Prompt(kind, answer) == [type |-> "prompt", id |-> kind, answer |-> answer]

\* No handler and no apply_fix has a try around self._run_command, so an exception
\* leaving _run_command leaves the handler and apply_fix at that call: the calls
\* made are those up to the first that raised, and nothing is returned.
Propagate(h) ==
    LET R == {i \in DOMAIN h.commands : h.commands[i].raised}
        first == CHOOSE i \in R : \A k \in R : i <= k
    IN IF R = {} THEN [commands |-> h.commands, raised |-> FALSE]
       ELSE [commands |-> SubSeq(h.commands, 1, first), raised |-> TRUE]

\* the events of calling handler id under env: the call (with what os.path.exists
\* says of /swapfile at that time), then its commands
Invocation(id, env) ==
    LET c == Propagate(Handler(id, env)).commands
    IN <<[type |-> "call", id |-> id, swapfile_exists |-> env.swapfile_exists]>>
       \o [i \in 1..Len(c) |->
            [type |-> "command", id |-> id, argv |-> c[i].argv,
             success |-> c[i].success, output |-> c[i].output,
             raised |-> c[i].raised, desc |-> c[i].desc]]

\* how a call of handler id under env ends: fix_func() returns its FixResult and
\* apply_fix returns it, or the exception leaves apply_fix
Ends(id, env) ==
    IF Propagate(Handler(id, env)).raised
    THEN fix_result' = <<>> /\ fixPc' = "raised"
    ELSE fix_result' = <<Handler(id, env).result>> /\ fixPc' = "done"

\* return fix_func() and the like: the handler runs and apply_fix returns its result
Return(id) ==
    \E env \in Envs(id) :
        /\ events' = events \o Invocation(id, env)
        /\ Ends(id, env)

ReturnNone ==
    /\ fix_result' = <<>>
    /\ fixPc' = "done"

\* if check_result.fix_command: the second prompt is reached
ToGenericFix ==
    IF check_result.fix_command # ""
    THEN fixPc' = "ask_generic" /\ UNCHANGED fix_result
    ELSE ReturnNone

\* apply_fix up to its first Confirm.ask or its return.  The four fixers define
\* apply_fix alike, but for fix_map and for DriverFixer's test for "blocked".
ApplyFix ==
    /\ fixPc = "idle"
    /\ IF ~check_result.fix_available
       THEN ReturnNone /\ UNCHANGED events
       ELSE IF /\ fixer = DRIVER
               /\ Contains("blocked", Lower(check_result.message))
               /\ Contains("wifi", Lower(check_result.name))
       THEN Return("unblock_wifi")
       ELSE IF /\ fixer = DRIVER
               /\ Contains("blocked", Lower(check_result.message))
               /\ Contains("bluetooth", Lower(check_result.name))
       THEN Return("enable_bluetooth")
       ELSE IF check_result.name \in DOMAIN fix_map(fixer)
       THEN fixPc' = "ask_named" /\ UNCHANGED <<events, fix_result>>
       ELSE ToGenericFix /\ UNCHANGED events
    /\ UNCHANGED <<fixer, check_result, categoryVars, checkerVars, probeVars, appVars, menuVars>>

\* Confirm.ask(f"Apply fix for [bold]{check_result.name}[/]?") answered yes
ConfirmNamedYes ==
    /\ fixPc = "ask_named"
    /\ \E env \in Envs(fix_map(fixer)[check_result.name]) :
        LET id == fix_map(fixer)[check_result.name]
        IN /\ events' = Append(events, Prompt("named", TRUE)) \o Invocation(id, env)
           /\ Ends(id, env)
    /\ UNCHANGED <<fixer, check_result, categoryVars, checkerVars, probeVars, appVars, menuVars>>

\* the same prompt answered no: control goes on to the generic fix
ConfirmNamedNo ==
    /\ fixPc = "ask_named"
    /\ events' = Append(events, Prompt("named", FALSE))
    /\ ToGenericFix
    /\ UNCHANGED <<fixer, check_result, categoryVars, checkerVars, probeVars, appVars, menuVars>>

\* Confirm.ask(f"Run fix command for [bold]{check_result.name}[/]?\n...") answered yes
ConfirmGenericYes ==
    /\ fixPc = "ask_generic"
    /\ \E env \in Envs("generic") :
        /\ events' = Append(events, Prompt("generic", TRUE)) \o Invocation("generic", env)
        /\ Ends("generic", env)
    /\ UNCHANGED <<fixer, check_result, categoryVars, checkerVars, probeVars, appVars, menuVars>>

\* the same prompt answered no: return None
ConfirmGenericNo ==
    /\ fixPc = "ask_generic"
    /\ events' = Append(events, Prompt("generic", FALSE))
    /\ ReturnNone
    /\ UNCHANGED <<fixer, check_result, categoryVars, checkerVars, probeVars, appVars, menuVars>>

NextFixer ==
    \/ ApplyFix
    \/ ConfirmNamedYes
    \/ ConfirmNamedNo
    \/ ConfirmGenericYes
    \/ ConfirmGenericNo

SpecFixer == InitFixer /\ [][NextFixer]_vars

\* the positions of events of one type
EventsOf(type) == {i \in DOMAIN events : events[i].type = type}
\* the handler the fixer registers for the result's name, if any
HasNamedHandler == check_result.name \in DOMAIN fix_map(fixer)

\* C6: in every fixer and on every path through apply_fix, a command is executed
\* only after the user answered yes to a confirmation prompt of that call.
C6_CommandOnlyAfterYes ==
    \A i \in EventsOf("command") :
        \E j \in EventsOf("prompt") : j < i /\ events[j].answer

\* C7: if the user answers no to any confirmation prompt of an apply_fix call,
\* the call executes no command.
C7_NoMeansNoCommand ==
    (\E j \in EventsOf("prompt") : ~events[j].answer) => EventsOf("command") = {}

\* C9: the literal fix_command is executed only when the fixer has no named handler
\* for the result's name; when a named handler matches, it is the only remediation
\* that runs in the call.
C9_NamedHandlerExcludesFallback ==
    /\ (\E i \in EventsOf("call") : events[i].id = "generic") => ~HasNamedHandler
    /\ HasNamedHandler =>
        \A i \in EventsOf("call") : events[i].id = fix_map(fixer)[check_result.name]

\* the commands of the handler's steps, in the order they were executed
StepCommands == SelectSeq(events, LAMBDA e : e.type = "command" /\ e.desc # "")
\* the handler apply_fix called, "" when it called none
Called == IF EventsOf("call") = {} THEN ""
          ELSE events[CHOOSE i \in EventsOf("call") : TRUE].id
\* the steps whose command failed
FailedSteps == {i \in DOMAIN StepCommands : ~StepCommands[i].success}
FirstOf(S) == CHOOSE i \in S : \A k \in S : i <= k

\* the handler stopped at the first step of S: that step's command is the last
\* step command executed, and the FixResult returned is a failure naming the step
StoppedAtFirst(S) ==
    /\ Len(StepCommands) = FirstOf(S)
    /\ fix_result # <<>>
    /\ ~fix_result[1].success
    /\ fix_result[1].message = "Failed at: " \o StepCommands[FirstOf(S)].desc

MultiStepHandlers ==
    {"fix_disk_space", "fix_dnf_issues", "create_swap", "install_nvidia_driver",
     "enable_bluetooth", "enable_firewall", "install_flatpak"}

FatalSteps ==
    {i \in FailedSteps :
        /\ ~(Called = "install_nvidia_driver" /\ StepCommands[i].desc = "Enabling RPM Fusion")
        /\ ~(Called = "enable_firewall"
             /\ StepCommands[i].output = "Package firewalld is already installed.")}

Commands == SelectSeq(events, LAMBDA e : e.type = "command")
\* apply_fix has ended, by a return or by an exception
Ended == fixPc \in {"done", "raised"}
\* /swapfile existed when the handler was entered
ExistedAtEntry == \E i \in EventsOf("call") : events[i].swapfile_exists
RemoveSwapfile == <<"sudo", "rm", "-f", "/swapfile">>

\* C11: when a step of create_swap fails, create_swap issues the removal of /swapfile,
\* executes no later step and returns a failed FixResult naming the step; when
\* /swapfile exists at entry it returns a failure and executes no command at all.
C11_CleanupOnFailure ==
    (Ended /\ Called = "create_swap") =>
        /\ FailedSteps # {} =>
            /\ StoppedAtFirst(FailedSteps)
            /\ Len(Commands) = Len(StepCommands) + 1
            /\ Commands[Len(Commands)].argv = RemoveSwapfile
        /\ ExistedAtEntry =>
            /\ Commands = <<>>
            /\ fix_result # <<>> /\ ~fix_result[1].success

\* the same for the calls in which no command raised
C11_CleanupOnFailure_WhenNothingRaises ==
    (\A i \in EventsOf("command") : ~events[i].raised) => C11_CleanupOnFailure

\* C12: whatever a remediation command does (exit 0, non-zero exit, timeout, missing
\* binary, any other OS error), apply_fix ends by returning a FixResult or None: no
\* exception leaves apply_fix towards _run_auto_fix and the top level.
C12_NoExceptionLeavesApplyFix ==
    /\ fixPc # "raised"
    /\ fixPc = "done" => Len(fix_result) <= 1

\* the command create_swap falls back to when open("/etc/fstab", "a") is refused
EchoToFstab == <<"sudo", "bash", "-c", "echo '/swapfile none swap sw 0 0' >> /etc/fstab">>

\* C30: create_swap returns a FixResult with success true only when its four steps
\* succeeded and the /etc/fstab entry of the swap file has actually been written.
C30_SuccessMeansFstabWritten ==
    (fixPc = "done" /\ Called = "create_swap" /\ fix_result # <<>> /\ fix_result[1].success) =>
        /\ Len(Commands) >= 4
        /\ \A i \in 1..4 : Commands[i].success
        /\ \A i \in DOMAIN Commands : Commands[i].argv = EchoToFstab => Commands[i].success

\* the same for the four steps alone
C30_SuccessMeansFstabWritten_StepsOnly ==
    (fixPc = "done" /\ Called = "create_swap" /\ fix_result # <<>> /\ fix_result[1].success) =>
        /\ Len(Commands) >= 4
        /\ \A i \in 1..4 : Commands[i].success

----------------------------------------------------------------------------
(* SpecProbe: one call of a probe, or of a _run_command helper, under what *)
(* the system does to it.  The probes modelled statement by statement are  *)
(* run_<name>; each yields raised (an exception left the probe), result    *)
(* (<<the CheckResult returned>>) and made (how many commands it started). *)

\* a process that ran to its end
Exited(code, out) == [kind |-> "exit", code |-> code, out |-> out]

\* checks/*.py: _run_command of the four checkers.  except (TimeoutExpired,
\* FileNotFoundError) as e: return False, str(e); any other exception leaves it.
checker_run_command(proc) ==
    CASE proc.kind = "exit" -> [success |-> proc.code = 0, output |-> proc.out, raised |-> FALSE]
      [] proc.kind = "timeout" ->
            [success |-> FALSE, output |-> "Command '{cmd}' timed out after {timeout} seconds",
             raised |-> FALSE]
      [] proc.kind = "notfound" ->
            [success |-> FALSE, output |-> "[Errno 2] No such file or directory: '{cmd[0]}'",
             raised |-> FALSE]
      [] proc.kind = "oserror" -> [success |-> FALSE, output |-> "", raised |-> TRUE]

\* postinstall/*.py: _run_command of the four post-install modules.
\* except Exception as e: return False, str(e)
postinstall_run_command(proc) ==
    CASE proc.kind = "exit" -> [success |-> proc.code = 0, output |-> proc.out, raised |-> FALSE]
      [] proc.kind = "timeout" ->
            [success |-> FALSE, output |-> "Command '{cmd}' timed out after {timeout} seconds",
             raised |-> FALSE]
      [] proc.kind = "notfound" ->
            [success |-> FALSE, output |-> "[Errno 2] No such file or directory: '{cmd[0]}'",
             raised |-> FALSE]
      [] proc.kind = "oserror" ->
            [success |-> FALSE, output |-> "[Errno 13] Permission denied: '{cmd[0]}'",
             raised |-> FALSE]

ProbeRaised(made) == [raised |-> TRUE, result |-> <<>>, made |-> made]
ProbeReturned(r, made) == [raised |-> FALSE, result |-> <<r>>, made |-> made]

\* checks/health.py: check_failed_units.  env.o[1] is what `systemctl --failed` does,
\* env.lines its stdout: result.stdout.strip().split('\n') without the empty lines,
\* each line as the list line.split() gives.
run_check_failed_units(env) ==
    CASE env.o[1].kind = "timeout" ->
            ProbeReturned(CheckResult("Failed Systemd Units", SKIP, "Check timed out", FALSE, ""), 1)
      [] env.o[1].kind \in {"notfound", "oserror"} -> ProbeRaised(1)
      [] env.o[1].kind = "exit" ->
            IF \E i \in DOMAIN env.lines : env.lines[i] = <<>>
            THEN ProbeRaised(1)      \* line.split()[0] raises IndexError
            ELSE IF env.lines # <<>>
            THEN ProbeReturned(CheckResult("Failed Systemd Units", FAIL,
                                           "{len(failed_units)} failed unit(s)", TRUE,
                                           "systemctl reset-failed"), 1)
            ELSE ProbeReturned(CheckResult("Failed Systemd Units", PASS, "No failed units",
                                           FALSE, ""), 1)

\* checks/health.py: check_dnf_status.  env.o[1] is what `dnf check --quiet` does.
run_check_dnf_status(env) ==
    CASE env.o[1].kind = "exit" ->
            IF env.o[1].code # 0
            THEN ProbeReturned(CheckResult("Package Manager", FAIL, "DNF reports issues", TRUE,
                                           "dnf check && dnf distro-sync"), 1)
            ELSE ProbeReturned(CheckResult("Package Manager", PASS, "DNF is healthy", FALSE, ""), 1)
      [] env.o[1].kind = "notfound" ->
            ProbeReturned(CheckResult("Package Manager", ERROR, "DNF not found", FALSE, ""), 1)
      [] env.o[1].kind = "timeout" ->
            ProbeReturned(CheckResult("Package Manager", SKIP, "Check timed out", FALSE, ""), 1)
      [] env.o[1].kind = "oserror" -> ProbeRaised(1)

\* checks/security.py: check_firewall.  env.o[1..3] are what `systemctl is-active
\* firewalld`, `firewall-cmd --get-default-zone` and `firewall-cmd --list-services` do.
run_check_firewall(env) ==
    LET active == checker_run_command(env.o[1])
        zone == checker_run_command(env.o[2])
        services == checker_run_command(env.o[3])
    IN IF active.raised THEN ProbeRaised(1)
       ELSE IF ~active.success \/ Contains("inactive", active.output)
       THEN ProbeReturned(CheckResult("Firewall (firewalld)", FAIL, "Firewall is not running",
                                      TRUE, "systemctl enable --now firewalld"), 1)
       ELSE IF zone.raised THEN ProbeRaised(2)
       ELSE IF services.raised THEN ProbeRaised(3)
       ELSE ProbeReturned(CheckResult("Firewall (firewalld)", PASS, "Active (zone: {zone})",
                                      FALSE, ""), 3)

\* checks/security.py: check_ssh_config.  env.exists is sshd_config.exists(); env.read
\* is what sshd_config.read_text() does: "PermissionError", or "ok" with env.root_login
\* and env.empty_passwords telling whether the two regular expressions match the
\* text; env.o[1] is what `systemctl is-active sshd` does.
run_check_ssh_config(env) ==
    LET issues == (IF env.root_login THEN <<"Root login enabled">> ELSE <<>>)
                  \o (IF env.empty_passwords THEN <<"Empty passwords allowed">> ELSE <<>>)
        sshd == checker_run_command(env.o[1])
    IN IF ~env.exists
       THEN ProbeReturned(CheckResult("SSH Configuration", SKIP, "SSH server not installed",
                                      FALSE, ""), 0)
       ELSE IF env.read = "PermissionError" THEN ProbeRaised(0)
       ELSE IF sshd.raised THEN ProbeRaised(1)
       ELSE IF issues # <<>>
       THEN ProbeReturned(CheckResult("SSH Configuration", WARN, "{len(issues)} security issue(s)",
                TRUE, "sed -i 's/PermitRootLogin yes/PermitRootLogin no/' /etc/ssh/sshd_config && systemctl restart sshd"), 1)
       ELSE IF sshd.success
       THEN ProbeReturned(CheckResult("SSH Configuration", PASS, "SSH configured securely",
                                      FALSE, ""), 1)
       ELSE ProbeReturned(CheckResult("SSH Configuration", PASS, "SSH not running (secure)",
                                      FALSE, ""), 1)

\* checks/drivers.py: check_firmware.  env.o[1..2] are what `which fwupdmgr` and
\* `fwupdmgr get-updates --json` do.
run_check_firmware(env) ==
    LET which == checker_run_command(env.o[1])
        updates == checker_run_command(env.o[2])
    IN IF which.raised THEN ProbeRaised(1)
       ELSE IF ~which.success
       THEN ProbeReturned(CheckResult("Firmware Updates", WARN, "fwupd not installed", TRUE,
                                      "dnf install fwupd"), 1)
       ELSE IF updates.raised THEN ProbeRaised(2)
       ELSE IF Contains("No upgrades", updates.output) \/ Contains("No updates", updates.output)
       THEN ProbeReturned(CheckResult("Firmware Updates", PASS, "Firmware up to date", FALSE, ""), 2)
       ELSE IF updates.success
       THEN ProbeReturned(CheckResult("Firmware Updates", WARN, "Firmware updates available",
                                      TRUE, "fwupdmgr update"), 2)
       ELSE ProbeReturned(CheckResult("Firmware Updates", PASS, "Unable to check updates",
                                      FALSE, ""), 2)

\* text.startswith(prefix), for the mount points and the prefix check_disk_space tests
startswith(text, prefix) ==
    <<text, prefix>> \in {<<"/snap/core/16202", "/snap">>, <<"/snapshots", "/snap">>}

\* checks/health.py: check_disk_space.  env.partitions is psutil.disk_partitions();
\* a partition's usage is what psutil.disk_usage(mountpoint) does: err "" with
\* percent (in tenths of a percent), or the exception it raises; env.root_err is
\* what the final psutil.disk_usage('/') does.
run_check_disk_space(env) ==
    LET looked == {i \in DOMAIN env.partitions :
                      /\ env.partitions[i].fstype # ""
                      /\ ~startswith(env.partitions[i].mountpoint, "/snap")}
        read == {i \in looked : env.partitions[i].usage.err = ""}
        critical == {i \in read : env.partitions[i].usage.percent >= 950}
        warns == {i \in read : /\ env.partitions[i].usage.percent < 950
                               /\ env.partitions[i].usage.percent >= 850}
    IN IF \E i \in looked : env.partitions[i].usage.err \notin {"", "PermissionError"}
       THEN ProbeRaised(0)
       ELSE IF critical # {}
       THEN ProbeReturned(CheckResult("Disk Space", FAIL,
                "Critical: {len(critical)} partition(s) nearly full", TRUE,
                "dnf autoremove && dnf clean all"), 0)
       ELSE IF warns # {}
       THEN ProbeReturned(CheckResult("Disk Space", WARN,
                "Warning: {len(warnings)} partition(s) above 85%", TRUE,
                "dnf autoremove && dnf clean all"), 0)
       ELSE IF env.root_err # "" THEN ProbeRaised(0)
       ELSE ProbeReturned(CheckResult("Disk Space", PASS, "Root partition: {root_usage}% used",
                                      FALSE, ""), 0)

DetailedProbes ==
    {"check_disk_space", "check_failed_units", "check_dnf_status", "check_firewall",
     "check_ssh_config", "check_firmware"}
RunCommandHelpers == {"checks._run_command", "fixes._run_command", "postinstall._run_command"}

RunProbe(name, env) ==
    CASE name = "check_disk_space" -> run_check_disk_space(env)
      [] name = "check_failed_units" -> run_check_failed_units(env)
      [] name = "check_dnf_status" -> run_check_dnf_status(env)
      [] name = "check_firewall" -> run_check_firewall(env)
      [] name = "check_ssh_config" -> run_check_ssh_config(env)
      [] name = "check_firmware" -> run_check_firmware(env)

\* the result shapes of the probe, as run_all_checks sees them
ShapesOf(name) ==
    CASE name = "check_disk_space" -> check_disk_space
      [] name = "check_failed_units" -> check_failed_units
      [] name = "check_dnf_status" -> check_dnf_status
      [] name = "check_firewall" -> check_firewall
      [] name = "check_ssh_config" -> check_ssh_config
      [] name = "check_firmware" -> check_firmware

RunHelper(name, proc) ==
    CASE name = "checks._run_command" -> checker_run_command(proc)
      [] name = "fixes._run_command" -> run_command(proc)
      [] name = "postinstall._run_command" -> postinstall_run_command(proc)

\* what the system can do to the call
Faults == {TimeoutExpired, FileNotFound, OtherOSError}
UnitLine == <<"nginx.service", "loaded", "failed", "failed", "nginx">>
MountPoints == {"/", "/home", "/snap/core/16202", "/snapshots"}
Usages ==
    {[err |-> "", percent |-> p] : p \in {849, 850, 949, 950}}
    \cup {[err |-> e, percent |-> 0] : e \in {"PermissionError", "OSError"}}
Partitions ==
    {[fstype |-> f, mountpoint |-> m, usage |-> u] :
        f \in {"", "ext4"}, m \in MountPoints, u \in Usages}
PartitionLists ==
    UNION {[1..n -> Partitions] : n \in 0..MaxPartitions}

ProbeEnvs(name) ==
    CASE name = "check_disk_space" ->
            {[partitions |-> ps, root_err |-> r] : ps \in PartitionLists, r \in {"", "OSError"}}
      [] name = "check_failed_units" ->
            {[o |-> <<p>>, lines |-> <<>>] : p \in Faults}
            \cup {[o |-> <<Exited(0, "")>>, lines |-> l] :
                    l \in {<<>>, <<UnitLine>>, <<UnitLine, <<>>, UnitLine>>}}
      [] name = "check_dnf_status" ->
            {[o |-> <<p>>] : p \in Faults \cup {Exited(0, ""), Exited(1, "Error: Check discovered 1 problem(s)")}}
      [] name = "check_firewall" ->
            {[o |-> o] : o \in [1..3 -> Faults \cup {Exited(0, "active"), Exited(3, "inactive"),
                                                      Exited(0, "public"), Exited(1, "")}]}
      [] name = "check_ssh_config" ->
            {[exists |-> x, read |-> r, root_login |-> rl, empty_passwords |-> ep, o |-> <<p>>] :
                x \in BOOLEAN, r \in {"ok", "PermissionError"}, rl \in BOOLEAN, ep \in BOOLEAN,
                p \in Faults \cup {Exited(0, "active"), Exited(3, "inactive")}}
      [] name = "check_firmware" ->
            {[o |-> o] : o \in [1..2 -> Faults \cup {Exited(0, "/usr/bin/fwupdmgr"),
                                                      Exited(1, ""),
                                                      Exited(2, "No upgrades for device firmware"),
                                                      Exited(0, "No updates available")}]}
      [] name \in RunCommandHelpers ->
            {[o |-> <<p>>] : p \in Faults \cup {Exited(0, "Complete!"), Exited(1, "Error: command failed"),
                                               Exited(127, "")}}

InitProbe ==
    /\ callee \in DetailedProbes \cup RunCommandHelpers
    /\ probeEnv \in ProbeEnvs(callee)
    /\ probePc = "idle"
    /\ probeOut = <<>>
    /\ IdleCategory
    /\ IdleChecker
    /\ IdleFixer
    /\ IdleApp
    /\ IdleMenu

\* result = check_func(), for one of the probes modelled statement by statement
CallProbe ==
    /\ probePc = "idle"
    /\ callee \in DetailedProbes
    /\ probeOut' = RunProbe(callee, probeEnv).result
    /\ probePc' = IF RunProbe(callee, probeEnv).raised THEN "raised" ELSE "returned"
    /\ UNCHANGED <<callee, probeEnv, categoryVars, checkerVars, fixerVars, appVars, menuVars>>

\* success, output = self._run_command(cmd)
CallRunCommand ==
    /\ probePc = "idle"
    /\ callee \in RunCommandHelpers
    /\ LET r == RunHelper(callee, probeEnv.o[1])
       IN IF r.raised
          THEN probeOut' = <<>> /\ probePc' = "raised"
          ELSE probeOut' = <<[success |-> r.success, output |-> r.output]>> /\ probePc' = "returned"
    /\ UNCHANGED <<callee, probeEnv, categoryVars, checkerVars, fixerVars, appVars, menuVars>>

NextProbe == CallProbe \/ CallRunCommand

SpecProbe == InitProbe /\ [][NextProbe]_vars

\* every result a modelled probe returns is one of the probe's result shapes
ProbeResultIsAShape ==
    (callee \in DetailedProbes /\ probePc = "returned") => probeOut[1] \in ShapesOf(callee)

\* C13: every probe returns a CheckResult and does not raise, whatever the command
\* or file it reads does (missing binary, timeout, permission denial, non-zero
\* exit, empty or unparseable output).
C13_ProbesNeverRaise ==
    callee \in DetailedProbes =>
        /\ probePc # "raised"
        /\ probePc = "returned" => Len(probeOut) = 1 /\ probeOut[1].status \in CheckStatus

\* a command the probe started ran into its timeout
CommandTimedOut ==
    /\ callee \in DetailedProbes \ {"check_disk_space"}
    /\ \E i \in 1..RunProbe(callee, probeEnv).made : probeEnv.o[i].kind = "timeout"

\* C14: when a probe's external command exceeds its timeout, the probe's result has
\* status Error or Skip (the same status on every such run), never Pass, Warn or Fail.
C14_TimeoutGivesErrorOrSkip ==
    (probePc = "returned" /\ CommandTimedOut) => probeOut[1].status \in {ERROR, SKIP}

\* C15: every _run_command helper returns a (success, output) pair and never raises;
\* success is true exactly when the process exits with code 0.
C15_RunCommandNeverRaises ==
    (callee \in RunCommandHelpers /\ probePc # "idle") =>
        /\ probePc = "returned"
        /\ probeOut[1].success <=> (probeEnv.o[1].kind = "exit" /\ probeEnv.o[1].code = 0)

\* the same for the outcomes the helper's except clause names, and for the
\* post-install helpers, which catch Exception
C15_RunCommandNeverRaises_OnCaughtFaults ==
    (callee \in RunCommandHelpers /\
     (callee = "postinstall._run_command" \/ probeEnv.o[1].kind # "oserror"))
        => C15_RunCommandNeverRaises

\* a mount point that lies under /snap
UnderSnap(m) == m \in {"/snap/core/16202"}
\* the partitions C20 has inspected: a filesystem type, not under /snap, readable
InspectedPercents ==
    {probeEnv.partitions[i].usage.percent : i \in
        {k \in DOMAIN probeEnv.partitions :
            /\ probeEnv.partitions[k].fstype # ""
            /\ ~UnderSnap(probeEnv.partitions[k].mountpoint)
            /\ probeEnv.partitions[k].usage.err # "PermissionError"}}

\* C20: check_disk_space returns Fail if an inspected partition is at least 95% used,
\* otherwise Warn if one is at least 85% used, otherwise Pass; partitions without a
\* filesystem type, under /snap or unreadable for lack of permission are not
\* inspected; every Fail or Warn result carries a fix.
C20_DiskSpaceThresholds ==
    (callee = "check_disk_space" /\ probePc = "returned") =>
        /\ probeOut[1].status =
            IF \E p \in InspectedPercents : p >= 950 THEN FAIL
            ELSE IF \E p \in InspectedPercents : p >= 850 THEN WARN
            ELSE PASS
        /\ probeOut[1].status \in {FAIL, WARN} =>
            probeOut[1].fix_available /\ probeOut[1].fix_command # ""

\* the same when no partition that is looked past merely has a mount point whose
\* text begins with /snap
C20_DiskSpaceThresholds_SnapMountsOnly ==
    (callee = "check_disk_space" /\
     \A i \in DOMAIN probeEnv.partitions : probeEnv.partitions[i].mountpoint # "/snapshots")
        => C20_DiskSpaceThresholds

----------------------------------------------------------------------------
(* SpecApp: main.py, the application from main() to the end of the process. *)
(*                                                                          *)
(* lists is the heap of result lists: `self.results = []` allocates the     *)
(* next index, and a CheckCategory holds the index of its list, as the      *)
(* Python object holds a reference.  check_results is the dict, kept as the *)
(* sequence of its (key, value) pairs in insertion order.  A run of a       *)
(* checker follows one scenario: every probe passes, or the first probes of *)
(* the table report their fixable finding (those that have none raise) and  *)
(* the others return the result in which they offer a fix without a Fail or *)
(* Warn status, if they have one, and pass otherwise.                       *)

Scenarios == {"pass", "findings"}
\* the table positions of the probes with a finding in scenario "findings"
FindingProbes == {1, 2}

\* a result that names a fix although its status is neither Fail nor Warn
\* ("ClamAV not installed", Skip, and the like)
Offers(r) == r.fix_available /\ r.status \in {PASS, SKIP, ERROR}

\* what the probe at position i of the table, entry e, does under scenario s
ScenarioOutcome(s, i, e) ==
    IF s = "pass"
    THEN [kind |-> "return", result |-> BaselineResult(e)]
    ELSE IF i \notin FindingProbes
    THEN [kind |-> "return",
          result |-> IF \E r \in e.check_func : Offers(r)
                     THEN CHOOSE r \in e.check_func : Offers(r)
                     ELSE BaselineResult(e)]
    ELSE IF \E r \in e.check_func : Fixable(r)
    THEN [kind |-> "return", result |-> CHOOSE r \in e.check_func : Fixable(r)]
    ELSE [kind |-> "raise", result |-> BaselineResult(e)]

NoRun == [checker |-> "", list |-> 0, idx |-> 0, inflight |-> {}, scenario |-> ""]
NoFix == [queue |-> <<>>, fixed |-> 0, failed |-> 0, passed |-> <<>>, last |-> ""]
NoReport == [categories |-> <<>>, file |-> ""]

\* dict operations on check_results
Keys(d) == {d[i].key : i \in DOMAIN d}
Get(d, k) == d[CHOOSE i \in DOMAIN d : d[i].key = k].value
\* d[k] = v: a key already present keeps its place
Put(d, k, v) ==
    IF k \in Keys(d)
    THEN [i \in DOMAIN d |-> IF d[i].key = k THEN [key |-> k, value |-> v] ELSE d[i]]
    ELSE Append(d, [key |-> k, value |-> v])

\* self.results = [] binding the list of the checker's previous run again
NewList_Reused(c) ==
    IF c \in Keys(check_results) THEN Get(check_results, c).results ELSE Len(lists) + 1

\* checker = HealthChecker(); self.results = []: a new list object
NewList(c) == Len(lists) + 1

\* main(): the exit code for what reaches the top level with the default
\* handling of an interrupt, a traceback and code 130
main_Interrupt130(reached) ==
    CASE reached = "return" -> 0
      [] reached = "KeyboardInterrupt" -> 130
      [] reached = "Exception" -> 1

\* main(): app.run() returns, or except KeyboardInterrupt: sys.exit(0),
\* or except Exception: sys.exit(1)
main(reached) ==
    CASE reached = "return" -> 0
      [] reached = "KeyboardInterrupt" -> 0
      [] reached = "Exception" -> 1

InitApp ==
    /\ appPc = "menu"
    /\ check_results = <<>>
    /\ lists = <<>>
    /\ run = NoRun
    /\ pending = <<>>
    /\ fixq = NoFix
    /\ exitCode = <<>>
    /\ cause = [reached |-> "", during |-> ""]
    /\ completed = <<>>
    /\ report = NoReport
    /\ IdleCategory
    /\ IdleChecker
    /\ IdleFixer
    /\ IdleProbe
    /\ IdleMenu

otherVars == <<categoryVars, checkerVars, fixerVars, probeVars, menuVars>>

\* the process ends: what reached the top level of main() decides the exit code.
\* The objects of the process (the cache, the lists, what was in progress) end
\* with it; the exit code and the report file stay.
ProcessEnds(reached) ==
    /\ exitCode' = <<main(reached)>>
    /\ cause' = [reached |-> reached,
                 during |-> IF run.inflight # {} THEN "probe" ELSE appPc]
    /\ appPc' = "exited"
    /\ check_results' = <<>>
    /\ lists' = <<>>
    /\ run' = NoRun
    /\ pending' = <<>>
    /\ fixq' = NoFix
    /\ completed' = <<>>

\* checker = XChecker(); category = checker.run_all_checks() up to the for loop
StartRun(c) ==
    /\ Len(lists) < MaxRuns
    /\ \E s \in Scenarios :
        run' = [checker |-> c, list |-> NewList(c), idx |-> 1, inflight |-> {}, scenario |-> s]
    /\ lists' = IF NewList(c) > Len(lists) THEN Append(lists, <<>>)
                ELSE [lists EXCEPT ![NewList(c)] = <<>>]

\* choice == '0': self._exit(); break; run() and main() return
ChooseExit ==
    /\ appPc = "menu"
    /\ ProcessEnds("return")
    /\ UNCHANGED <<report, otherVars>>

\* choice in '1'..'4': _run_health_check and its three siblings
ChooseCheck ==
    /\ appPc = "menu"
    /\ \E c \in CategoryNames : StartRun(c)
    /\ appPc' = "check"
    /\ UNCHANGED <<check_results, pending, fixq, exitCode, cause, completed, report, otherVars>>

\* run_all_checks: result = check_func() is entered
AppProbeStart ==
    /\ appPc \in {"check", "report_run"}
    /\ run.idx <= Len(ChecksOf(run.checker))
    /\ run.inflight = {}
    /\ run' = [run EXCEPT !.inflight = {run.idx}]
    /\ UNCHANGED <<appPc, check_results, lists, pending, fixq, exitCode, cause, completed, report, otherVars>>

\* run_all_checks: the probe returns or raises and its result is appended
AppProbeEnd ==
    /\ appPc \in {"check", "report_run"}
    /\ run.inflight # {}
    /\ LET e == ChecksOf(run.checker)[run.idx]
           o == ScenarioOutcome(run.scenario, run.idx, e)
       IN lists' = [lists EXCEPT ![run.list] =
                        IF o.kind = "return" THEN Append(@, o.result)
                        ELSE except_Exception(@, e.name, "").results]
    /\ run' = [run EXCEPT !.inflight = {}, !.idx = @ + 1]
    /\ UNCHANGED <<appPc, check_results, pending, fixq, exitCode, cause, completed, report, otherVars>>

\* the CheckCategory run_all_checks returns
Returned == [name |-> run.checker, results |-> run.list]

\* _run_x_check: run_all_checks returns and _display_category_results stores the
\* category: self.check_results[category.name] = category
CheckReturns ==
    /\ appPc = "check"
    /\ run.idx > Len(ChecksOf(run.checker))
    /\ check_results' = Put(check_results, Returned.name, Returned)
    /\ completed' = Append(completed, [name |-> run.checker, list |-> run.list,
                                       results |-> lists[run.list]])
    /\ run' = NoRun
    /\ appPc' = "wait_key"
    /\ UNCHANGED <<lists, pending, fixq, exitCode, cause, report, otherVars>>

\* the next round of the loop starting with an empty cache
WaitForKey_ClearsCache ==
    /\ appPc = "wait_key"
    /\ appPc' = "menu"
    /\ check_results' = <<>>
    /\ UNCHANGED <<lists, run, pending, fixq, exitCode, cause, completed, report, otherVars>>

\* self._wait_for_key(), then the next round of the loop
WaitForKey ==
    /\ appPc = "wait_key"
    /\ appPc' = "menu"
    /\ UNCHANGED <<check_results, lists, run, pending, fixq, exitCode, cause, completed, report, otherVars>>

\* choice == '5': _run_post_install, and choice == '8': _show_settings; neither
\* touches check_results
ChooseOther ==
    /\ appPc = "menu"
    /\ appPc' \in {"postinstall", "wait_key"}
    /\ UNCHANGED <<check_results, lists, run, pending, fixq, exitCode, cause, completed, report, otherVars>>

PostInstallDone ==
    /\ appPc = "postinstall"
    /\ appPc' = "wait_key"
    /\ UNCHANGED <<check_results, lists, run, pending, fixq, exitCode, cause, completed, report, otherVars>>

\* _run_auto_fix: the (category name, result) pairs collected from check_results,
\* categories in dict order and results in list order
RECURSIVE FixableOf(_, _)
FixableOf(d, i) ==
    IF i > Len(d) THEN <<>>
    ELSE LET rs == SelectSeq(lists[d[i].value.results], Fixable)
         IN [k \in 1..Len(rs) |-> [cat_name |-> d[i].value.name, result |-> rs[k]]]
            \o FixableOf(d, i + 1)

\* choice == '6': _run_auto_fix up to Confirm.ask("Attempt to fix all issues?")
ChooseAutoFix ==
    /\ appPc = "menu"
    /\ appPc' = IF check_results = <<>> \/ FixableOf(check_results, 1) = <<>>
                THEN "wait_key" ELSE "fix_ask"
    /\ UNCHANGED <<check_results, lists, run, pending, fixq, exitCode, cause, completed, report, otherVars>>

\* Confirm.ask("Attempt to fix all issues?")
FixConfirm ==
    /\ appPc = "fix_ask"
    /\ \E answer \in BOOLEAN :
        IF answer
        THEN /\ fixq' = [NoFix EXCEPT !.queue = FixableOf(check_results, 1)]
             /\ appPc' = "fixing"
        ELSE /\ appPc' = "wait_key"
             /\ UNCHANGED fixq
    /\ UNCHANGED <<check_results, lists, run, pending, exitCode, cause, completed, report, otherVars>>

\* how fixer.apply_fix(result) can end: a FixResult with success, one without,
\* None, or an exception (the four ends of apply_fix in SpecFixer)
ApplyFixEnds == {"success", "failure", "None", "raised"}

\* the count only of the calls that returned a FixResult
CountedAs_NoneUncounted(end) ==
    IF end = "success" THEN "fixed" ELSE IF end = "failure" THEN "failed" ELSE ""

\* if fix_result and fix_result.success: fixed += 1, else: failed += 1
CountedAs(end) == IF end # "None" /\ end = "success" THEN "fixed" ELSE "failed"

\* one round of the loop in which a successful fix marks the cached result passed
FixOne_UpdatesCache ==
    /\ appPc = "fixing"
    /\ fixq.queue # <<>>
    /\ fixq' = [queue |-> Tail(fixq.queue), fixed |-> fixq.fixed + 1, failed |-> fixq.failed,
                passed |-> Append(fixq.passed, Head(fixq.queue)), last |-> "success"]
    /\ lists' = [l \in DOMAIN lists |-> [k \in DOMAIN lists[l] |->
                    IF lists[l][k] = Head(fixq.queue).result
                    THEN [lists[l][k] EXCEPT !.status = PASS] ELSE lists[l][k]]]
    /\ UNCHANGED <<appPc, exitCode, cause, check_results, run, pending, completed, report, otherVars>>

\* one round of `for cat_name, result in fixable`
FixOne ==
    /\ appPc = "fixing"
    /\ fixq.queue # <<>>
    /\ \E end \in ApplyFixEnds :
        IF end = "raised"
        THEN ProcessEnds("Exception")
        ELSE /\ fixq' = [queue |-> Tail(fixq.queue),
                         fixed |-> fixq.fixed + (IF CountedAs(end) = "fixed" THEN 1 ELSE 0),
                         failed |-> fixq.failed + (IF CountedAs(end) = "failed" THEN 1 ELSE 0),
                         passed |-> Append(fixq.passed, Head(fixq.queue)),
                         last |-> end]
             /\ UNCHANGED <<appPc, exitCode, cause, check_results, lists, run, pending, completed>>
    /\ UNCHANGED <<report, otherVars>>

\* the loop is over: print(f"Results: {fixed} fixed, {failed} failed")
FixDone ==
    /\ appPc = "fixing"
    /\ fixq.queue = <<>>
    /\ appPc' = "wait_key"
    /\ fixq' = NoFix
    /\ UNCHANGED <<check_results, lists, run, pending, exitCode, cause, completed, report, otherVars>>

\* _generate_report running the Desktop checker first
ReportOrder_DesktopFirst == <<DESKTOP, HEALTH, DRIVER, SECURITY>>

\* the order in which _generate_report runs the checkers
ReportOrder == <<HEALTH, DRIVER, SECURITY, DESKTOP>>

\* if not self.check_results or len(self.check_results) < 4
NeedsRun(d) == d = <<>> \/ Len(d) < 4

\* choice == '7': _generate_report up to its first prompt or to the generator
ChooseReport ==
    /\ appPc = "menu"
    /\ appPc' = IF NeedsRun(check_results) THEN "report_ask" ELSE "report_gen"
    /\ UNCHANGED <<check_results, lists, run, pending, fixq, exitCode, cause, completed, report, otherVars>>

\* Confirm.ask("Run all checks to generate complete report?")
ReportConfirm ==
    /\ appPc = "report_ask"
    /\ \/ /\ StartRun(ReportOrder[1])
          /\ pending' = Tail(ReportOrder)
          /\ appPc' = "report_run"
       \/ /\ appPc' = IF check_results = <<>> THEN "wait_key" ELSE "report_gen"
          /\ UNCHANGED <<lists, run, pending>>
    /\ UNCHANGED <<check_results, fixq, exitCode, cause, completed, report, otherVars>>

\* self.check_results["X Check"] = checker.run_all_checks(), then the next checker
ReportRunReturns ==
    /\ appPc = "report_run"
    /\ run.idx > Len(ChecksOf(run.checker))
    /\ check_results' = Put(check_results, Returned.name, Returned)
    /\ completed' = Append(completed, [name |-> run.checker, list |-> run.list,
                                       results |-> lists[run.list]])
    /\ IF pending = <<>>
       THEN /\ appPc' = "report_gen"
            /\ run' = NoRun
            /\ UNCHANGED <<lists, pending>>
       ELSE /\ StartRun(Head(pending))
            /\ pending' = Tail(pending)
            /\ UNCHANGED appPc
    /\ UNCHANGED <<fixq, exitCode, cause, report, otherVars>>

\* the report built from the first cached category only
Values_FirstOnly(d) == SubSeq([i \in DOMAIN d |-> d[i].value], 1, 1)

\* list(self.check_results.values())
Values(d) == [i \in DOMAIN d |-> d[i].value]

\* categories = list(self.check_results.values()); generator = ReportGenerator();
\* generate(categories) up to doc.build: the story is built in memory, and the file
\* at the generator's output path (a name with the time in it) does not exist yet;
\* or an exception of the generator reaches the top level
ReportGenerate ==
    /\ appPc = "report_gen"
    /\ \/ /\ report' = [categories |-> Values(check_results), file |-> "absent"]
          /\ appPc' = "report_build"
          /\ UNCHANGED <<exitCode, cause, check_results, lists, run, pending, fixq, completed>>
       \/ /\ ProcessEnds("Exception")
          /\ UNCHANGED report
    /\ UNCHANGED otherVars

\* doc.build(story, ...): the document is laid out and the file is opened for
\* writing at the output path itself, or opening it fails
ReportBuild ==
    /\ appPc = "report_build"
    /\ \/ /\ report' = [report EXCEPT !.file = "partial"]
          /\ appPc' = "report_write"
          /\ UNCHANGED <<exitCode, cause, check_results, lists, run, pending, fixq, completed>>
       \/ /\ ProcessEnds("Exception")
          /\ UNCHANGED report
    /\ UNCHANGED otherVars

\* doc.build: the PDF is written to the open file and the file is closed;
\* generate returns output, or a write fails
ReportWrite ==
    /\ appPc = "report_write"
    /\ \/ /\ report' = [report EXCEPT !.file = "complete"]
          /\ appPc' = "report_open"
          /\ UNCHANGED <<exitCode, cause, check_results, lists, run, pending, fixq, completed>>
       \/ /\ ProcessEnds("Exception")
          /\ UNCHANGED report
    /\ UNCHANGED otherVars

\* Confirm.ask("Open the report now?") and subprocess.run(["xdg-open", ...]) inside
\* try / except: (everything xdg-open raises is swallowed); _generate_report returns
ReportOpen ==
    /\ appPc = "report_open"
    /\ appPc' = "wait_key"
    /\ report' = NoReport
    /\ UNCHANGED <<check_results, lists, run, pending, fixq, exitCode, cause, completed, otherVars>>

\* Ctrl-C: a KeyboardInterrupt is raised wherever the program is and, caught by
\* nothing below main(), reaches except KeyboardInterrupt there
Interrupt ==
    /\ appPc # "exited"
    /\ ProcessEnds("KeyboardInterrupt")
    /\ UNCHANGED <<report, otherVars>>

NextApp ==
    \/ ChooseExit
    \/ ChooseCheck
    \/ AppProbeStart
    \/ AppProbeEnd
    \/ CheckReturns
    \/ WaitForKey
    \/ ChooseOther
    \/ PostInstallDone
    \/ ChooseAutoFix
    \/ FixConfirm
    \/ FixOne
    \/ FixDone
    \/ ChooseReport
    \/ ReportConfirm
    \/ ReportRunReturns
    \/ ReportGenerate
    \/ ReportBuild
    \/ ReportWrite
    \/ ReportOpen
    \/ Interrupt

SpecApp == InitApp /\ [][NextApp]_vars


\* C16: the process ends with exit code 0 when the user chooses Exit, with exit code 0
\* when a KeyboardInterrupt reaches the top level, wherever it was raised (during a
\* probe, a fix, the report), and with exit code 1 when any other exception does.
C16_ExitCodes ==
    /\ exitCode # <<>> <=> appPc = "exited"
    /\ appPc = "exited" =>
        /\ cause.reached \in {"return", "KeyboardInterrupt", "Exception"}
        /\ cause.reached = "return" => cause.during = "menu" /\ exitCode = <<0>>
        /\ cause.reached = "KeyboardInterrupt" => exitCode = <<0>>
        /\ cause.reached = "Exception" => exitCode = <<1>>

C16_Witness ==
    /\ appPc = "exited"
    /\ cause = [reached |-> "KeyboardInterrupt", during |-> "probe"]
    /\ exitCode = <<0>>

\* the position in completed of the last completed run of checker c, 0 if none
LastRunOf(c) ==
    LET S == {n \in DOMAIN completed : completed[n].name = c}
    IN IF S = {} THEN 0 ELSE CHOOSE n \in S : \A k \in S : k <= n

\* C17: check_results holds at most one CheckCategory per name, its keys are among
\* the four category names, the entry of a name is the category the most recent
\* completed run of that checker returned, from the menu or from the report, and
\* no run modifies a category an earlier run returned.
C17_CacheHoldsLatestRun ==
    /\ Keys(check_results) \subseteq CategoryNames
    /\ \A i \in DOMAIN check_results : \A j \in DOMAIN check_results :
        i # j => check_results[i].key # check_results[j].key
    /\ \A c \in CategoryNames : (c \in Keys(check_results)) <=> (LastRunOf(c) # 0)
    /\ \A c \in Keys(check_results) :
        Get(check_results, c) = [name |-> c, results |-> completed[LastRunOf(c)].list]
    /\ \A n \in DOMAIN completed : lists[completed[n].list] = completed[n].results

C17_Witness ==
    \E m \in DOMAIN completed : \E n \in DOMAIN completed :
        /\ m < n /\ n = Len(completed)
        /\ completed[m].name = completed[n].name
        /\ completed[m].results # completed[n].results
        /\ appPc = "report_run"
        /\ Get(check_results, completed[n].name).results = completed[n].list
        /\ lists[completed[m].list] = completed[m].results

\* C18: within run_all_checks a probe is invoked only after the probe before it has
\* returned or raised and its result is appended, so at most one probe is in
\* progress; the report runs the checkers in the order Health, Driver, Security,
\* Desktop, each finishing before the next starts.
C18_OneAtATimeInOrder ==
    /\ appPc \in {"check", "report_run"} => run # NoRun
    /\ appPc \in {"menu", "wait_key", "report_gen"} => run = NoRun
    /\ run # NoRun =>
        /\ Cardinality(run.inflight) <= 1
        /\ run.inflight \subseteq {run.idx}
        /\ Len(lists[run.list]) = run.idx - 1
    /\ appPc = "report_run" =>
        LET order == <<"Health Check", "Driver Check", "Security Check", "Desktop Check">>
            k == 4 - Len(pending)
        IN /\ k \in 1..4
           /\ run.checker = order[k]
           /\ pending = SubSeq(order, k + 1, 4)
           /\ Len(completed) >= k - 1
           /\ \A j \in 1..(k - 1) : completed[Len(completed) - (k - 1) + j].name = order[j]

C18_Witness ==
    /\ appPc = "report_run"
    /\ run.checker = "Desktop Check"
    /\ run.inflight = {2}
    /\ Len(lists[run.list]) = 1
    /\ Len(completed) = 3

\* C21: a user interrupt arriving while a report is being generated ends the
\* program without a partially written report file at the report's output path.
C21_InterruptLeavesNoPartialReport ==
    (appPc = "exited" /\ cause.reached = "KeyboardInterrupt") => report.file # "partial"

\* the interrupts that arrive outside doc.build's writing leave no partial file
C21_InterruptLeavesNoPartialReport_OutsideWrite ==
    (appPc = "exited" /\ cause.reached = "KeyboardInterrupt"
        /\ cause.during # "report_write") => report.file # "partial"

\* every cached result with the name of its category, categories in cache order
\* and results in list order
RECURSIVE AllCached(_)
AllCached(i) ==
    IF i > Len(check_results) THEN <<>>
    ELSE LET c == check_results[i].value
         IN [k \in DOMAIN lists[c.results] |-> [cat_name |-> c.name, result |-> lists[c.results][k]]]
            \o AllCached(i + 1)

FailOrWarnWithFix(p) == p.result.fix_available /\ p.result.status \in {"fail", "warn"}

\* C23: Auto-Fix passes to a fixer exactly the cached results with fix_available
\* true and status Fail or Warn, in cache order; a Skip, Error or Pass result is
\* never passed, whatever its fix_available; with an empty cache, or when the user
\* declines "Attempt to fix all issues?", no fixer is invoked.
C23_AutoFixPassesFailAndWarnOnly ==
    LET expected == SelectSeq(AllCached(1), FailOrWarnWithFix)
        given == fixq.passed
    IN /\ Len(given) <= Len(expected)
       /\ given = SubSeq(expected, 1, Len(given))
       /\ (appPc = "fixing" /\ fixq.queue = <<>>) => given = expected
       /\ \A i \in DOMAIN given : given[i].result.status \notin {"skip", "error", "pass"}
       /\ check_results = <<>> => given = <<>>
       /\ appPc \notin {"fixing", "exited"} => given = <<>>

C23_Witness ==
    /\ appPc = "fixing"
    /\ fixq.queue = <<>>
    /\ Len(fixq.passed) >= 3
    /\ fixq.passed[1].cat_name # fixq.passed[3].cat_name
    /\ \E i \in DOMAIN AllCached(1) :
        /\ AllCached(1)[i].result.fix_available
        /\ AllCached(1)[i].result.status = "skip"

\* C24: Generate Report runs the checks again only when fewer than four categories
\* are cached and the user confirms; after a confirmed run the cache holds exactly
\* the four categories; when the user declines and the cache is empty no report is
\* produced; in every other case the report is built from exactly the categories
\* in the cache at that moment.
C24_ReportRunsAndSource ==
    [][/\ (appPc # "report_run" /\ appPc' = "report_run") =>
            (appPc = "report_ask" /\ Len(check_results) < 4)
       /\ (appPc = "report_run" /\ appPc' = "report_gen") =>
            (Len(check_results') = 4 /\ Keys(check_results') = CategoryNames)
       /\ (appPc = "report_ask" /\ check_results = <<>> /\ appPc' \notin {"report_run", "exited"}) =>
            (appPc' = "wait_key" /\ report' = NoReport)
       /\ (report = NoReport /\ report' # NoReport) =>
            /\ check_results # <<>>
            /\ report'.categories = [i \in DOMAIN check_results |-> check_results[i].value]
       /\ (report # NoReport /\ report' # NoReport) => report'.categories = report.categories
      ]_vars

C24_Witness ==
    /\ appPc = "report_write"
    /\ Len(completed) = 4
    /\ [i \in 1..4 |-> completed[i].name] = ReportOrder
    /\ Len(report.categories) = 4
    /\ [i \in 1..4 |-> report.categories[i].name] = ReportOrder

\* the report built from a cache of fewer than four categories after the user
\* declined the run
C24_WitnessPartialCache ==
    /\ appPc = "report_write"
    /\ Len(report.categories) = 2
    /\ Len(check_results) = 2

\* C27: run() leaves its loop only when the menu returns '0'; after every other
\* selection the selected action runs to its end, the program waits for a key press
\* and the menu is shown again, check_results being kept from one round to the next.
\* (What else ends the process is an exception or an interrupt reaching main().)
C27_LoopEndsOnlyOnExit ==
    [][/\ (appPc # "exited" /\ appPc' = "exited") =>
            /\ (cause'.reached = "return") => appPc = "menu"
            /\ cause'.reached \in {"return", "KeyboardInterrupt", "Exception"}
       /\ (appPc # "menu" /\ appPc' = "menu") =>
            (appPc = "wait_key" /\ check_results' = check_results)
       /\ (appPc # "wait_key" /\ appPc' = "wait_key") =>
            (run' = NoRun /\ pending' = <<>> /\ fixq' = NoFix /\ report' = NoReport)
       /\ (appPc = "menu" /\ appPc' # "exited") =>
            (appPc' \notin {"menu", "exited"} /\ check_results' = check_results)
      ]_vars

C27_Witness ==
    /\ appPc = "menu"
    /\ Len(completed) = 3
    /\ Len(check_results) = 2
    /\ exitCode = <<>>

\* C28: applying a fix, successful or not, leaves check_results and the cached
\* results as they are: the result stays cached with its old status and is among
\* what the next Auto-Fix collects, until the checks of its category run again.
C28_FixLeavesCacheUnchanged ==
    /\ [][(appPc \in {"fix_ask", "fixing"} /\ appPc' # "exited") =>
            (check_results' = check_results /\ lists' = lists)]_vars
    /\ [](appPc = "fixing" =>
            \A i \in DOMAIN fixq.passed :
                \E j \in DOMAIN FixableOf(check_results, 1) :
                    FixableOf(check_results, 1)[j] = fixq.passed[i])

C28_Witness ==
    /\ appPc = "fixing"
    /\ fixq.queue = <<>>
    /\ fixq.fixed >= 1
    /\ fixq.failed >= 1
    /\ \A i \in DOMAIN fixq.passed : fixq.passed[i].result.status \in {FAIL, WARN}
    /\ \E j \in DOMAIN AllCached(1) : AllCached(1)[j] = fixq.passed[1]

\* C29: after a confirmed Auto-Fix run fixed + failed is the number of issues
\* offered; an issue counts as fixed only when apply_fix returned a FixResult with
\* success true, and one whose fix the user declined (apply_fix returned None)
\* counts as failed.
C29_FixedPlusFailedIsOffered ==
    /\ [](appPc = "fixing" =>
            /\ fixq.fixed + fixq.failed = Len(fixq.passed)
            /\ fixq.queue = <<>> =>
                  fixq.fixed + fixq.failed = Len(SelectSeq(AllCached(1), FailOrWarnWithFix)))
    /\ [][(appPc = "fixing" /\ appPc' = "fixing" /\ fixq' # fixq) =>
            /\ (fixq'.fixed = fixq.fixed + 1) <=> (fixq'.last = "success")
            /\ (fixq'.last \in {"None", "failure"}) <=>
                  (fixq'.failed = fixq.failed + 1 /\ fixq'.fixed = fixq.fixed)
            /\ fixq'.fixed + fixq'.failed = fixq.fixed + fixq.failed + 1]_vars

C29_Witness ==
    /\ appPc = "fixing"
    /\ fixq.queue = <<>>
    /\ fixq.last = "None"
    /\ fixq.fixed = 2
    /\ fixq.failed = 2
    /\ Len(fixq.passed) = 4

----------------------------------------------------------------------------
(* SpecMenu: ui/menu.py.  run_menu(menu) on a Menu built with add_item, one *)
(* key press after another until it returns.  selected_index counts from 0  *)
(* as in the program; items[k] of the program is menu.items[k + 1] here.    *)
(* The while loop of move_up and move_down is taken one round at a time.    *)

\* the keys of the items a Menu is built from
ItemKeys == {"0", "a"}

\* what get_keypress returns: the named keys and single characters
KeyPresses == {"up", "down", "enter", "escape", "q", "ctrl+c", "left", "0", "a", "A", "x"}

\* str.lower on the characters above
lower(k) == IF k = "A" THEN "a" ELSE k

MenuItem(key, enabled) == [key |-> key, enabled |-> enabled]

\* Menu(title=..., console=...) followed by add_item calls: selected_index is 0
Menus ==
    {[items |-> its, selected_index |-> 0] :
        its \in UNION {[1..n -> {MenuItem(k, e) : k \in ItemKeys, e \in BOOLEAN}] : n \in 0..MaxItems}}

\* the selection stopping at the first and at the last item
step_Clamped(i, d, n) ==
    IF i + d < 0 THEN 0 ELSE IF i + d >= n THEN n - 1 ELSE i + d

\* (self.selected_index - 1) % len(self.items), and + 1 for move_down
step(i, d, n) == (i + d) % n

\* Menu.get_key_action: <<the first enabled item whose key is key, whatever the
\* case>>, or <<>> for None
get_key_action(m, key) ==
    LET S == {i \in DOMAIN m.items : lower(m.items[i].key) = lower(key) /\ m.items[i].enabled}
    IN IF S = {} THEN <<>> ELSE <<m.items[CHOOSE i \in S : \A j \in S : i <= j]>>

\* for i, m in enumerate(menu.items): if m.key == item.key: the index found
IndexOfKey(m, k) ==
    (CHOOSE i \in DOMAIN m.items :
        /\ m.items[i].key = k
        /\ \A j \in DOMAIN m.items : m.items[j].key = k => i <= j) - 1

Direction(pc) == IF pc = "move_up" THEN -1 ELSE 1

InitMenu ==
    /\ menu \in Menus
    /\ menuPc = "waiting"
    /\ pressed = ""
    /\ moveFrom = 0
    /\ menuOut = <<>>
    /\ IdleCategory
    /\ IdleChecker
    /\ IdleFixer
    /\ IdleProbe
    /\ IdleApp

notMenuVars == <<categoryVars, checkerVars, fixerVars, probeVars, appVars>>

\* key == 'up' or 'down': move_up, move_down up to the while loop; without items
\* the modulo raises ZeroDivisionError
KeyMove ==
    /\ menuPc = "waiting"
    /\ \E k \in {"up", "down"} :
        /\ pressed' = k
        /\ IF Len(menu.items) = 0
           THEN /\ menuPc' = "raised"
                /\ UNCHANGED menu
           ELSE /\ menuPc' = IF k = "up" THEN "move_up" ELSE "move_down"
                /\ menu' = [menu EXCEPT !.selected_index =
                                step(@, IF k = "up" THEN -1 ELSE 1, Len(menu.items))]
    /\ moveFrom' = menu.selected_index
    /\ UNCHANGED <<menuOut, notMenuVars>>

\* while not self.items[self.selected_index].enabled: one more step
MoveSkip ==
    /\ menuPc \in {"move_up", "move_down"}
    /\ ~menu.items[menu.selected_index + 1].enabled
    /\ menu' = [menu EXCEPT !.selected_index = step(@, Direction(menuPc), Len(menu.items))]
    /\ UNCHANGED <<menuPc, pressed, moveFrom, menuOut, notMenuVars>>

\* the while loop ends on an enabled item; redraw() and the next key
MoveDone ==
    /\ menuPc \in {"move_up", "move_down"}
    /\ menu.items[menu.selected_index + 1].enabled
    /\ menuPc' = "waiting"
    /\ UNCHANGED <<menu, pressed, moveFrom, menuOut, notMenuVars>>

\* key == 'enter': item = menu.items[menu.selected_index]; return item.key
KeyEnter ==
    /\ menuPc = "waiting"
    /\ pressed' = "enter"
    /\ IF Len(menu.items) = 0
       THEN /\ menuPc' = "raised"
            /\ UNCHANGED menuOut
       ELSE /\ menuPc' = "returned"
            /\ menuOut' = <<menu.items[menu.selected_index + 1].key>>
    /\ UNCHANGED <<menu, moveFrom, notMenuVars>>

\* key == 'escape' or key == 'q' or key == 'ctrl+c': return '0'
KeyExit ==
    /\ menuPc = "waiting"
    /\ pressed' \in {"escape", "q", "ctrl+c"}
    /\ menuPc' = "returned"
    /\ menuOut' = <<"0">>
    /\ UNCHANGED <<menu, moveFrom, notMenuVars>>

\* any other key: the shortcut of an enabled item selects it and returns its key,
\* anything else is ignored
KeyOther ==
    /\ menuPc = "waiting"
    /\ \E k \in KeyPresses \ {"up", "down", "enter", "escape", "q", "ctrl+c"} :
        /\ pressed' = k
        /\ LET item == get_key_action(menu, k)
           IN IF item = <<>>
              THEN UNCHANGED <<menu, menuPc, menuOut>>
              ELSE /\ menu' = [menu EXCEPT !.selected_index = IndexOfKey(menu, item[1].key)]
                   /\ menuPc' = "returned"
                   /\ menuOut' = <<item[1].key>>
    /\ UNCHANGED <<moveFrom, notMenuVars>>

NextMenu ==
    \/ KeyMove
    \/ MoveSkip
    \/ MoveDone
    \/ KeyEnter
    \/ KeyExit
    \/ KeyOther

\* the rounds of the while loop need no input: they are taken while enabled
SpecMenu == InitMenu /\ [][NextMenu]_vars /\ WF_vars(MoveSkip \/ MoveDone)


SomeEnabled == \E i \in DOMAIN menu.items : menu.items[i].enabled

\* the enabled item nearest to position from in direction d, going round the ends
NearestEnabled(from, d) ==
    LET n == Len(menu.items)
        at(m) == (from + d * m) % n
        m0 == CHOOSE m \in 1..n :
                /\ menu.items[at(m) + 1].enabled
                /\ \A j \in 1..(m - 1) : ~menu.items[at(j) + 1].enabled
    IN at(m0)

\* C25: for a Menu with at least one enabled item, every call of move_up or
\* move_down terminates and leaves selected_index within 0..len(items)-1 on an
\* enabled item: the nearest enabled item in the direction of the move, going
\* round at both ends.
C25_MoveTerminatesOnNearestEnabled ==
    /\ [](SomeEnabled =>
            /\ menu.selected_index \in 0..(Len(menu.items) - 1)
            /\ (menuPc = "waiting" /\ pressed \in {"up", "down"}) =>
                /\ menu.items[menu.selected_index + 1].enabled
                /\ menu.selected_index =
                     NearestEnabled(moveFrom, IF pressed = "up" THEN -1 ELSE 1))
    /\ ((SomeEnabled /\ menuPc \in {"move_up", "move_down"}) ~> (menuPc = "waiting"))

C25_Witness ==
    /\ Len(menu.items) = 3
    /\ ~menu.items[3].enabled
    /\ menuPc = "waiting"
    /\ pressed = "up"
    /\ moveFrom = 0
    /\ menu.selected_index = 1

C26_ReturnsEnabledKeysOnly_NotEnterOnInitialSelection ==
    (menuOut # <<>> /\ ~(pressed = "enter" /\ ~menu.items[menu.selected_index + 1].enabled)) =>
        \/ menuOut[1] = "0"
        \/ \E i \in DOMAIN menu.items : menu.items[i].enabled /\ menu.items[i].key = menuOut[1]

====
